---- MODULE Spec2Model ----
(***************************************************************************)
(* effect-actor: the transition executor (executeCommand), the service     *)
(* facade (ActorService.execute) and the storage providers it persists     *)
(* through.                                                                *)
(*                                                                         *)
(* Fourteen specifications:                                                *)
(*   SpecExec  executeCommand as a pure function: Init draws the actor     *)
(*             spec, the current state and the command, RunExecutor        *)
(*             applies the function once.                                  *)
(*   Spec      the service over a storage backend: sequences of execute    *)
(*             calls on several entities, with stored files that may       *)
(*             become unparsable (fs-json backend).                        *)
(*   SpecValidate  validateSpec as a pure function of a drawn spec,        *)
(*             called more than once.                                      *)
(*   SpecOps   the service with query and canTransition and with the spec  *)
(*             registered and registered again.                            *)
(*   SpecHist  the service with a clock and getHistory.                    *)
(*   SpecRegistry  register, get and all of the spec registry.             *)
(*   SpecStore the storage provider alone: save, then load.                *)
(*   SpecConc  two saves of one entity whose steps interleave.             *)
(*   SpecActor an actor made by Actor.make and the messages sent to it.    *)
(*   SpecFlow  the service on one entity of a spec with a transition       *)
(*             without actions, a self-transition and a terminal state.    *)
(*   SpecReads the read operations of the service next to execute.         *)
(*   SpecSave  execute with a save whose I/O may go wrong.                 *)
(*   SpecRace  two callers whose executes overlap: load and save of a      *)
(*             command as separate steps.                                  *)
(*   SpecKeys  the place a backend stores an entity in, for free-form      *)
(*             actor types and ids.                                        *)
(***************************************************************************)
EXTENDS Integers, Sequences, FiniteSets, TLC

VARIABLES
    registry,   \* SpecRegistry: the `specs` map, actor type -> ActorSpec
    backend,    \* which StorageProviderApi implementation is provided
    files,      \* storage: entity key -> stored state and audit list
    nextId,     \* number of audit ids handed out by crypto.randomUUID()
    exec,       \* the last executeCommand invocation: arguments and outcome
    call,       \* the last service call: command, outcome, storage calls made
    clock,      \* the time `new Date()` returns, in milliseconds
    val,        \* the last validateSpec invocation: the spec and the outcome
    inflight,   \* the calls in progress: each saver's or caller's position and data
    actor       \* an actor made by Actor.make: its config, its currentState,
                \* the messages sent to it and the outcome of the last send

vars == <<registry, backend, files, nextId, exec, call, clock, val, inflight, actor>>

(***************************************************************************)
(* Bounds                                                                  *)
(***************************************************************************)
MaxCount == 1       \* largest `count` drawn for an input context or command data
MaxSaves == 2       \* successful saves per behaviour of the service

(***************************************************************************)
(* JavaScript values held in a context. A value is a number (possibly NaN) *)
(* or a string (the storage section adds dates and null); a missing key    *)
(* reads as undefined.                                                     *)
(***************************************************************************)
Absent == ""        \* an optional name that is undefined (falsy in `if (x)`)

Num(n) == [t |-> "number", n |-> n, s |-> ""]
NaN == [t |-> "number", n |-> 0, s |-> "NaN"]
Str(s) == [t |-> "string", n |-> 0, s |-> s]

EmptyCtx == [k \in {} |-> Num(0)]

Put(ctx, key, v) ==
    [k \in (DOMAIN ctx) \cup {key} |-> IF k = key THEN v ELSE ctx[k]]

\* Merge with the spread order swapped: a's value where both have the key
MergeFirstWins(a, b) ==
    [k \in (DOMAIN a) \cup (DOMAIN b) |-> IF k \in DOMAIN a THEN a[k] ELSE b[k]]

\* { ...a, ...b }: the keys of both, b's value where both have the key
Merge(a, b) ==
    [k \in (DOMAIN a) \cup (DOMAIN b) |-> IF k \in DOMAIN b THEN b[k] ELSE a[k]]

\* ctx.count + 1 in JavaScript
PlusOne(ctx) ==
    IF "count" \notin DOMAIN ctx THEN NaN
    ELSE LET c == ctx["count"] IN
         IF c.t = "string" THEN Str(c.s \o "1")
         ELSE IF c.s = "NaN" THEN NaN
         ELSE Num(c.n + 1)

(***************************************************************************)
(* Guard and action functions of the test specification.                   *)
(***************************************************************************)
\* canStart: (ctx) => ctx.count > 0
GuardFn(impl, ctx) ==
    IF impl = "canStart"
    THEN /\ "count" \in DOMAIN ctx
         /\ ctx["count"].t = "number"
         /\ ctx["count"].s # "NaN"
         /\ ctx["count"].n > 0
    ELSE FALSE

ActionFn(impl, ctx) ==
    CASE impl = "increment"    -> Put(ctx, "count", PlusOne(ctx))
      [] impl = "invalidCount" -> [k \in {"count"} |-> Str("invalid")]
      [] impl = "onExit"       -> Put(ctx, "message", Str("exited"))
      [] impl = "onEntry"      -> Put(ctx, "message", Str("entered"))
      [] OTHER                 -> ctx

\* Schema.decodeUnknown(TestSchema): count a number, message a string if present
DecodeOk(ctx) ==
    /\ "count" \in DOMAIN ctx
    /\ ctx["count"].t = "number"
    /\ ("message" \in DOMAIN ctx => ctx["message"].t = "string")

(***************************************************************************)
(* Actor specs. `on` is the list of a state's outgoing transitions in      *)
(* declaration order; a transition is written as a string or as an object. *)
(***************************************************************************)
StrT(ev, target) ==
    [event |-> ev, form |-> "string", target |-> target,
     guard |-> Absent, action |-> Absent]
ObjT(ev, target, guard, action) ==
    [event |-> ev, form |-> "object", target |-> target,
     guard |-> guard, action |-> action]

StateDef(on, entry, exit) == [on |-> on, entry |-> entry, exit |-> exit]

\* createTestSpec() with the exit action of `active`, the guard and action of
\* COMPLETE, the entry action of `done` and the body of `increment` as parameters
TestSpec(ex, g, tx, en, inc) ==
    [id |-> "test",
     schema |-> "TestSchema",
     initial |-> "idle",
     order |-> <<"idle", "active", "done">>,
     states |->
        [s \in {"idle", "active", "done"} |->
            CASE s = "idle" ->
                    StateDef(<<StrT("START", "active"),
                               ObjT("START_WITH_GUARD", "active", "canStart", Absent),
                               ObjT("START_WITH_ACTION", "active", Absent, "increment")>>,
                             Absent, Absent)
              [] s = "active" ->
                    StateDef(<<ObjT("COMPLETE", "done", g, tx),
                               ObjT("TOUCH", "active", Absent, "increment")>>,
                             Absent, ex)
              [] OTHER ->
                    StateDef(<<>>, en, Absent)],
     guards |-> [n \in {"canStart"} |-> "canStart"],
     actions |-> [n \in {"increment", "onExit", "onEntry"} |->
                    IF n = "increment" THEN inc ELSE n]]

ActionRefs == {Absent, "increment", "onExit", "onEntry", "nonExistentAction"}
HookRefs == {Absent, "onExit", "onEntry", "nonExistentAction"}
GuardRefs == {Absent, "canStart", "nonExistentGuard"}
IncImpls == {"increment", "invalidCount"}

\* the specs the executor is applied to
SpecSet ==
    {TestSpec(ex, g, tx, en, inc) :
        ex \in HookRefs, g \in GuardRefs, tx \in ActionRefs,
        en \in HookRefs, inc \in IncImpls}

\* the specs registered with the service
ServiceSpecSet ==
    {TestSpec("onExit", Absent, "increment", "onEntry", "increment"),
     TestSpec("onExit", "canStart", "increment", "onEntry", "increment"),
     TestSpec("onExit", Absent, "increment", "onEntry", "invalidCount"),
     TestSpec("onExit", "nonExistentGuard", "increment", "onEntry", "increment"),
     TestSpec("onExit", Absent, "nonExistentAction", "onEntry", "increment")}

(***************************************************************************)
(* executeCommand                                                          *)
(***************************************************************************)
Range(seq) == {seq[i] : i \in 1..Len(seq)}

\* Keys that loses the last declared event
KeysDropLast(on) == [i \in 1..(Len(on) - 1) |-> on[i].event]

\* Object.keys(stateDef.on ?? {})
Keys(on) == [i \in 1..Len(on) |-> on[i].event]

\* stateDef.on?.[event]
Lookup(on, ev) == {t \in Range(on) : t.event = ev}

\* typeof transitionDef === "string" ? { target: transitionDef } : transitionDef
Normalize(t) ==
    IF t.form = "string"
    THEN [target |-> t.target, guard |-> Absent, action |-> Absent]
    ELSE [target |-> t.target, guard |-> t.guard, action |-> t.action]

Fail(tag, fields, tr) == [tag |-> tag, error |-> fields, trace |-> tr]

\* the calls executeCommand makes to guard and action functions, in order,
\* each with the context it was given
GuardCall(name, arg) == [kind |-> "guard", name |-> name, arg |-> arg]
ActionCall(name, arg) == [kind |-> "action", name |-> name, arg |-> arg]

\* the working context between two steps, or the failure that ended the run
Step(tag, error, ctx, trace) == [tag |-> tag, error |-> error, ctx |-> ctx, trace |-> trace]
NoError == [none |-> TRUE]

\* the working context with the spread written the other way round:
\* { ...command.data, ...currentState.context }
mergedContextDataFirst(currentState, command) ==
    Merge(command.data, currentState.context)

\* let newContext = { ...currentState.context, ...command.data }
mergedContext(currentState, command) == Merge(currentState.context, command.data)

\* evalGuard that calls the guard but ignores a false result
evalGuardIgnoreResult(spec, transition, ctx) ==
    IF transition.guard = Absent
    THEN Step("ok", NoError, ctx, <<>>)
    ELSE IF transition.guard \notin DOMAIN spec.guards
    THEN Step("GuardNotFoundError", [guard |-> transition.guard], ctx, <<>>)
    ELSE Step("ok", NoError, ctx, <<GuardCall(transition.guard, ctx)>>)

\* 3. evaluate the guard, if the transition names one
evalGuard(spec, transition, ctx) ==
    IF transition.guard = Absent
    THEN Step("ok", NoError, ctx, <<>>)
    ELSE IF transition.guard \notin DOMAIN spec.guards
    THEN Step("GuardNotFoundError", [guard |-> transition.guard], ctx, <<>>)
    ELSE IF ~GuardFn(spec.guards[transition.guard], ctx)
    THEN Step("GuardFailedError", [guard |-> transition.guard], ctx,
              <<GuardCall(transition.guard, ctx)>>)
    ELSE Step("ok", NoError, ctx, <<GuardCall(transition.guard, ctx)>>)

\* one action step: resolve the name, replace the working context by the
\* function's return value
applyAction(spec, name, st) ==
    IF st.tag # "ok" \/ name = Absent THEN st
    ELSE IF name \notin DOMAIN spec.actions
    THEN Step("ActionNotFoundError", [action |-> name], st.ctx, st.trace)
    ELSE Step("ok", NoError, ActionFn(spec.actions[name], st.ctx),
              Append(st.trace, ActionCall(name, st.ctx)))

\* runActions with the transition's action applied before the exit action
runActionsTransitionFirst(spec, stateDef, transition, st) ==
    LET afterTransition == applyAction(spec, transition.action, st)
        afterExit == applyAction(spec, stateDef.exit, afterTransition)
    IN IF afterExit.tag # "ok" THEN afterExit
       ELSE IF transition.target \notin DOMAIN spec.states
       THEN Step("Defect", [reason |-> "TypeError"], afterExit.ctx, afterExit.trace)
       ELSE applyAction(spec, spec.states[transition.target].entry, afterExit)

\* runActions that takes a transition back to the current state for an
\* internal one: only the transition's action runs
runActionsInternalSelf(spec, stateDef, transition, st) ==
    IF transition.target \in DOMAIN spec.states /\ spec.states[transition.target] = stateDef
    THEN applyAction(spec, transition.action, st)
    ELSE
    LET afterExit == applyAction(spec, stateDef.exit, st)
        afterTransition == applyAction(spec, transition.action, afterExit)
    IN IF afterTransition.tag # "ok" THEN afterTransition
       ELSE IF transition.target \notin DOMAIN spec.states
       THEN Step("Defect", [reason |-> "TypeError"], afterTransition.ctx,
                 afterTransition.trace)
       ELSE applyAction(spec, spec.states[transition.target].entry, afterTransition)

\* runActions that reads the entry action through optional chaining: a target
\* that is not a state has no entry action
runActionsOptionalEntry(spec, stateDef, transition, st) ==
    LET afterExit == applyAction(spec, stateDef.exit, st)
        afterTransition == applyAction(spec, transition.action, afterExit)
    IN IF afterTransition.tag # "ok" THEN afterTransition
       ELSE IF transition.target \notin DOMAIN spec.states
       THEN afterTransition
       ELSE applyAction(spec, spec.states[transition.target].entry, afterTransition)

\* 4-6. exit action of the current state, action of the transition, entry
\* action of the target state
runActions(spec, stateDef, transition, st) ==
    LET afterExit == applyAction(spec, stateDef.exit, st)
        afterTransition == applyAction(spec, transition.action, afterExit)
    IN IF afterTransition.tag # "ok" THEN afterTransition
       ELSE IF transition.target \notin DOMAIN spec.states
       THEN \* newStateDef is undefined: reading .entry throws, the effect dies
            Step("Defect", [reason |-> "TypeError"], afterTransition.ctx,
                 afterTransition.trace)
       ELSE applyAction(spec, spec.states[transition.target].entry, afterTransition)

\* decodeContext that accepts every context
decodeContextSkipped(spec, st) == st

\* 7. Schema.decodeUnknown(spec.schema)(newContext)
decodeContext(spec, st) ==
    IF st.tag # "ok" THEN st
    ELSE IF ~DecodeOk(st.ctx)
    THEN Step("ValidationError",
              [reason |-> "Context validation failed after action execution"],
              st.ctx, st.trace)
    ELSE st

\* executeCommand that resolves and runs the actions before it looks at the
\* guard
executeCommandActionsFirst(spec, currentState, command) ==
    IF currentState.state \notin DOMAIN spec.states
    THEN Fail("InvalidStateError", [state |-> currentState.state], <<>>)
    ELSE
    LET stateDef == spec.states[currentState.state]
        found == Lookup(stateDef.on, command.event)
    IN
    IF found = {}
    THEN Fail("TransitionNotAllowedError",
              [from |-> currentState.state, event |-> command.event,
               available |-> Keys(stateDef.on)], <<>>)
    ELSE
    LET transition == Normalize(CHOOSE t \in found : TRUE)
        merged == mergedContext(currentState, command)
        acted == runActions(spec, stateDef, transition,
                            Step("ok", NoError, merged, <<>>))
        guarded == evalGuard(spec, transition, merged)
        final == IF acted.tag # "ok" THEN acted
                 ELSE IF guarded.tag # "ok" THEN guarded
                 ELSE decodeContext(spec, acted)
    IN
    IF final.tag # "ok"
    THEN Fail(final.tag, final.error, final.trace)
    ELSE [tag |-> "ok",
          result |-> [from |-> currentState.state,
                      to |-> transition.target,
                      event |-> command.event,
                      oldContext |-> currentState.context,
                      newContext |-> final.ctx],
          trace |-> final.trace]

\* executeCommand that reports the merged context as the old one
executeCommandOldContextMerged(spec, currentState, command) ==
    IF currentState.state \notin DOMAIN spec.states
    THEN Fail("InvalidStateError", [state |-> currentState.state], <<>>)
    ELSE
    LET stateDef == spec.states[currentState.state]
        found == Lookup(stateDef.on, command.event)
    IN
    IF found = {}
    THEN Fail("TransitionNotAllowedError",
              [from |-> currentState.state, event |-> command.event,
               available |-> Keys(stateDef.on)], <<>>)
    ELSE
    LET transition == Normalize(CHOOSE t \in found : TRUE)
        guarded == evalGuard(spec, transition, mergedContext(currentState, command))
        final == IF guarded.tag # "ok" THEN guarded
                 ELSE decodeContext(spec, runActions(spec, stateDef, transition, guarded))
    IN
    IF final.tag # "ok"
    THEN Fail(final.tag, final.error, final.trace)
    ELSE [tag |-> "ok",
          result |-> [from |-> currentState.state,
                      to |-> transition.target,
                      event |-> command.event,
                      oldContext |-> mergedContext(currentState, command),
                      newContext |-> final.ctx],
          trace |-> final.trace]

executeCommand(spec, currentState, command) ==
    IF currentState.state \notin DOMAIN spec.states
    THEN Fail("InvalidStateError", [state |-> currentState.state], <<>>)
    ELSE
    LET stateDef == spec.states[currentState.state]
        found == Lookup(stateDef.on, command.event)
    IN
    IF found = {}
    THEN Fail("TransitionNotAllowedError",
              [from |-> currentState.state, event |-> command.event,
               available |-> Keys(stateDef.on)], <<>>)
    ELSE
    LET transition == Normalize(CHOOSE t \in found : TRUE)
        guarded == evalGuard(spec, transition, mergedContext(currentState, command))
        final == IF guarded.tag # "ok" THEN guarded
                 ELSE decodeContext(spec, runActions(spec, stateDef, transition, guarded))
    IN
    IF final.tag # "ok"
    THEN Fail(final.tag, final.error, final.trace)
    ELSE [tag |-> "ok",
          result |-> [from |-> currentState.state,
                      to |-> transition.target,
                      event |-> command.event,
                      oldContext |-> currentState.context,
                      newContext |-> final.ctx],
          trace |-> final.trace]

(***************************************************************************)
(* Inputs                                                                  *)
(***************************************************************************)
CountVals == {Num(n) : n \in 0..MaxCount} \cup {Str("invalid")}
MessageVals == {Str("hello")}

\* the contexts and command data drawn as inputs: records over a subset of
\* the keys count and message
Contexts ==
    {EmptyCtx}
    \cup {[k \in {"count"} |-> c] : c \in CountVals}
    \cup {[k \in {"message"} |-> m] : m \in MessageVals}
    \cup {[k \in {"count", "message"} |-> IF k = "count" THEN c ELSE m] :
            c \in CountVals, m \in MessageVals}

\* command data: nothing, a count, a count of the wrong type, a message
DataSet ==
    {EmptyCtx,
     [k \in {"count"} |-> Num(MaxCount)],
     [k \in {"count"} |-> Str("invalid")],
     [k \in {"message"} |-> Str("hello")],
     [k \in {"count", "message"} |-> IF k = "count" THEN Num(0) ELSE Str("hello")]}

Events == {"START", "START_WITH_GUARD", "START_WITH_ACTION", "COMPLETE",
           "TOUCH", "INVALID_EVENT"}
StateNames == {"idle", "active", "done", "nonExistentState"}

ActorState(type, id, state, context, version) ==
    [id |-> id, actorType |-> type, state |-> state,
     context |-> context, version |-> version]

NoState == ActorState("", "", "", EmptyCtx, 0)

Pending == [tag |-> "pending"]
NoExec == [cur |-> NoState, cmd |-> [event |-> "", data |-> EmptyCtx], out |-> [tag |-> "none"]]
NoCall == [op |-> "none"]
NoVal == [out |-> [tag |-> "none"], runs |-> 0]
NoInflight == [p \in {} |-> [pc |-> "idle"]]
NoActor == [made |-> FALSE]

\* command data the service is called with
ServiceData ==
    {EmptyCtx,
     [k \in {"count"} |-> Num(0)],
     [k \in {"count"} |-> Num(MaxCount)]}

ServiceEvents == {"START", "COMPLETE", "TOUCH", "INVALID_EVENT"}

ActorTypes == {"test", "ghost"}
ActorIds == {"a1", "a2"}
EntityKeys == ActorTypes \X ActorIds

NoFile == [exists |-> FALSE, parsable |-> FALSE, state |-> NoState, audit |-> <<>>]

(***************************************************************************)
(* SpecExec: executeCommand applied once to drawn arguments                *)
(***************************************************************************)
InitExec ==
    /\ registry \in [{"test"} -> SpecSet]
    /\ backend = "memory"
    /\ files = [k \in EntityKeys |-> NoFile]
    /\ nextId = 0
    /\ call = NoCall
    /\ clock = 0
    /\ inflight = NoInflight
    /\ actor = NoActor
    /\ val = NoVal
    /\ \E st \in StateNames, ctx \in Contexts, ev \in Events, data \in DataSet :
          exec = [cur |-> ActorState("test", "a1", st, ctx, 0),
                  cmd |-> [event |-> ev, data |-> data],
                  out |-> Pending]

RunExecutor ==
    /\ exec.out = Pending
    /\ exec' = [exec EXCEPT !.out = executeCommand(registry["test"], exec.cur, exec.cmd)]
    /\ UNCHANGED <<registry, backend, files, nextId, call, clock, val, inflight, actor>>

NextExec == RunExecutor

SpecExec == InitExec /\ [][NextExec]_vars

(***************************************************************************)
(* Storage providers: createMockStorage (in memory) and                    *)
(* makeFsJsonStorageProvider (one JSON file per entity).                   *)
(***************************************************************************)
Backends == {"memory", "fs-json"}

\* values a stored state may hold besides numbers and strings: a Date (the
\* time in milliseconds), the ISO-8601 text of a time, null
DateVal(ms) == [t |-> "date", n |-> ms, s |-> ""]
InvalidDate == [t |-> "date", n |-> 0, s |-> "Invalid Date"]
IsoString(ms) == [t |-> "string", n |-> ms, s |-> "iso"]
Null == [t |-> "null", n |-> 0, s |-> ""]

\* JSON.parse(JSON.stringify(v)) of one value: NaN is written as null, a Date
\* as its ISO text (an invalid one as null); numbers and strings come back
jsonValue(v) ==
    CASE v.t = "number" /\ v.s = "NaN" -> Null
      [] v.t = "date" -> IF v = InvalidDate THEN Null ELSE IsoString(v.n)
      [] OTHER -> v

\* the `state` member of the file JSON.stringify(updatedData) writes, as
\* JSON.parse reads it back
jsonState(state) ==
    [k \in DOMAIN state |->
        CASE k = "context" -> [c \in DOMAIN state[k] |-> jsonValue(state[k][c])]
          [] k \in {"createdAt", "updatedAt"} -> jsonValue(state[k])
          [] OTHER -> state[k]]

\* new Date(v)
newDate(v) ==
    CASE v.t = "string" /\ v.s = "iso" -> DateVal(v.n)
      [] v.t = "date" -> v
      [] v.t = "number" /\ v.s # "NaN" -> DateVal(v.n)
      [] v.t = "null" -> DateVal(0)
      [] OTHER -> InvalidDate

\* data.state.createdAt = new Date(data.state.createdAt), and updatedAt; the
\* context is left as parsed
reviveState(state) ==
    [k \in DOMAIN state |->
        IF k \in {"createdAt", "updatedAt"} THEN newDate(state[k]) ELSE state[k]]

\* fs-json loadFile: not found when the file does not exist, a parse failure
\* when its content is not JSON
loadFile(fs, key) ==
    IF ~fs[key].exists
    THEN [ok |-> FALSE, reason |-> "Actor not found", data |-> NoFile]
    ELSE IF ~fs[key].parsable
    THEN [ok |-> FALSE, reason |-> "Failed to parse JSON", data |-> NoFile]
    ELSE [ok |-> TRUE, reason |-> "",
          data |-> [fs[key] EXCEPT !.state = reviveState(@)]]

\* in-memory load: fails only when the key is not in the map
mockLoad(fs, key) ==
    IF ~fs[key].exists
    THEN [ok |-> FALSE, reason |-> "Actor not found", data |-> NoFile]
    ELSE [ok |-> TRUE, reason |-> "", data |-> fs[key]]

load(be, fs, key) == IF be = "memory" THEN mockLoad(fs, key) ELSE loadFile(fs, key)

\* in-memory save: set the state, put the audit entry in front of the list
mockSave(fs, key, state, audit) ==
    [fs EXCEPT ![key] = [exists |-> TRUE, parsable |-> TRUE, state |-> state,
                         audit |-> <<audit>> \o fs[key].audit]]

\* fs-json save: read the file (a file that cannot be loaded counts as an
\* empty audit list), append the entry, rewrite the file
fsJsonSave(fs, key, state, audit) ==
    LET existing == loadFile(fs, key)
        old == IF existing.ok THEN existing.data.audit ELSE <<>>
    IN [fs EXCEPT ![key] = [exists |-> TRUE, parsable |-> TRUE,
                            state |-> jsonState(state),
                            audit |-> Append(old, audit)]]

save(be, fs, key, state, audit) ==
    IF be = "memory" THEN mockSave(fs, key, state, audit)
    ELSE fsJsonSave(fs, key, state, audit)

(***************************************************************************)
(* ActorService.execute (ActorServiceLive.execute is the same handler with *)
(* Effect.catchAll in place of Effect.orElse)                              *)
(***************************************************************************)
Command(ty, id, ev, d) == [actorType |-> ty, actorId |-> id, event |-> ev, data |-> d]

\* commands on the entities of the registered type, and one on a type that
\* has no spec
Commands ==
    {Command("test", id, ev, d) : id \in ActorIds, ev \in ServiceEvents, d \in ServiceData}
    \cup {Command("ghost", "a1", "START", EmptyCtx)}

\* initialState that starts the version at 1
initialStateVersionOne(spec, command) ==
    ActorState(command.actorType, command.actorId, spec.initial, EmptyCtx, 1)

\* the state synthesized when nothing could be loaded
initialState(spec, command) ==
    ActorState(command.actorType, command.actorId, spec.initial, EmptyCtx, 0)

\* 2. storage.load(...).pipe(Effect.orElse(() => Effect.succeed(initial))):
\* any failure of load, whatever its reason, is replaced by the initial state
loadOrInitialize(spec, be, fs, command) ==
    LET loaded == load(be, fs, <<command.actorType, command.actorId>>)
    IN IF loaded.ok THEN loaded.data.state ELSE initialState(spec, command)

\* persist that also records a failed attempt: the unchanged state is saved
\* with an audit entry whose result is "failed"
persistFailuresToo(be, fs, uuid, startTime, command, currentState, result) ==
    LET key == <<command.actorType, command.actorId>>
        ok == result.tag = "ok"
        newState == IF ok
                    THEN ActorState(currentState.actorType, currentState.id,
                                    result.result.to, result.result.newContext,
                                    currentState.version + 1)
                    ELSE currentState
        auditEntry == [id |-> uuid,
                       timestamp |-> startTime,
                       actorType |-> command.actorType,
                       actorId |-> command.actorId,
                       event |-> command.event,
                       from |-> currentState.state,
                       to |-> IF ok THEN result.result.to ELSE Absent,
                       result |-> IF ok THEN "success" ELSE "failed"]
    IN [files |-> save(be, fs, key, newState, auditEntry),
        saves |-> <<[key |-> key, state |-> newState, audit |-> auditEntry]>>]

\* persist that stores the context the executor was given instead of the one
\* it returned
persistStaleContext(be, fs, uuid, startTime, command, currentState, result) ==
    IF result.tag # "ok"
    THEN [files |-> fs, saves |-> <<>>]
    ELSE
    LET key == <<command.actorType, command.actorId>>
        newState == ActorState(currentState.actorType, currentState.id,
                               result.result.to, result.result.oldContext,
                               currentState.version + 1)
        auditEntry == [id |-> uuid,
                       timestamp |-> startTime,
                       actorType |-> command.actorType,
                       actorId |-> command.actorId,
                       event |-> command.event,
                       from |-> currentState.state,
                       to |-> result.result.to,
                       result |-> "success"]
    IN [files |-> save(be, fs, key, newState, auditEntry),
        saves |-> <<[key |-> key, state |-> newState, audit |-> auditEntry]>>]

\* 4. build the new state and the audit entry and save them in one call; a
\* failed executeCommand has already ended the handler
persist(be, fs, uuid, startTime, command, currentState, result) ==
    IF result.tag # "ok"
    THEN [files |-> fs, saves |-> <<>>]
    ELSE
    LET key == <<command.actorType, command.actorId>>
        newState == ActorState(currentState.actorType, currentState.id,
                               result.result.to, result.result.newContext,
                               currentState.version + 1)
        auditEntry == [id |-> uuid,
                       timestamp |-> startTime,
                       actorType |-> command.actorType,
                       actorId |-> command.actorId,
                       event |-> command.event,
                       from |-> currentState.state,
                       to |-> result.result.to,
                       result |-> "success"]
    IN [files |-> save(be, fs, key, newState, auditEntry),
        saves |-> <<[key |-> key, state |-> newState, audit |-> auditEntry]>>]

\* execute that loads the entity before it resolves the spec
executeLoadsFirst(reg, be, fs, uuid, startTime, command) ==
    IF command.actorType \notin DOMAIN reg
    THEN [out |-> Fail("SpecNotFoundError", [actorType |-> command.actorType], <<>>),
          files |-> fs, loads |-> 1, ran |-> FALSE, exec |-> NoExec, saves |-> <<>>]
    ELSE
    LET spec == reg[command.actorType]
        currentState == loadOrInitialize(spec, be, fs, command)
        cmd == [event |-> command.event, data |-> command.data]
        result == executeCommand(spec, currentState, cmd)
        stored == persist(be, fs, uuid, startTime, command, currentState, result)
    IN [out |-> result,
        files |-> stored.files,
        loads |-> 1,
        ran |-> TRUE,
        exec |-> [cur |-> currentState, cmd |-> cmd, out |-> result],
        saves |-> stored.saves]

\* the whole handler: what the caller gets (out), the storage it leaves, the
\* storage calls it made and the executeCommand invocation it made, if any
execute(reg, be, fs, uuid, startTime, command) ==
    IF command.actorType \notin DOMAIN reg
    THEN [out |-> Fail("SpecNotFoundError", [actorType |-> command.actorType], <<>>),
          files |-> fs, loads |-> 0, ran |-> FALSE, exec |-> NoExec, saves |-> <<>>]
    ELSE
    LET spec == reg[command.actorType]
        currentState == loadOrInitialize(spec, be, fs, command)
        cmd == [event |-> command.event, data |-> command.data]
        result == executeCommand(spec, currentState, cmd)
        stored == persist(be, fs, uuid, startTime, command, currentState, result)
    IN [out |-> result,
        files |-> stored.files,
        loads |-> 1,
        ran |-> TRUE,
        exec |-> [cur |-> currentState, cmd |-> cmd, out |-> result],
        saves |-> stored.saves]

(***************************************************************************)
(* Spec: the service driven by commands                                    *)
(***************************************************************************)
Init ==
    /\ registry \in [{"test"} -> ServiceSpecSet]
    /\ backend \in Backends
    /\ files = [k \in EntityKeys |-> NoFile]
    /\ nextId = 0
    /\ exec = NoExec
    /\ call = NoCall
    /\ clock = 0
    /\ inflight = NoInflight
    /\ actor = NoActor
    /\ val = NoVal

Execute(command) ==
    \E r \in {execute(registry, backend, files, nextId + 1, clock, command)} :
    /\ nextId + Len(r.saves) <= MaxSaves
    /\ files' = r.files
    /\ nextId' = nextId + Len(r.saves)
    /\ exec' = IF r.ran THEN r.exec ELSE exec
    /\ call' = [op |-> "execute", command |-> command, out |-> r.out,
                loads |-> r.loads, ran |-> r.ran, saves |-> r.saves]
    /\ UNCHANGED <<registry, backend, clock, val, inflight, actor>>

\* the content of a stored file stops being valid JSON (a truncated write, an
\* edit by hand); what was written stays in the file
DamageFile(key) ==
    /\ backend = "fs-json"
    /\ files[key].exists
    /\ files[key].parsable
    /\ files' = [files EXCEPT ![key].parsable = FALSE]
    /\ call' = [op |-> "damage", key |-> key]
    /\ UNCHANGED <<registry, backend, nextId, exec, clock, val, inflight, actor>>

Next ==
    \/ \E command \in Commands : Execute(command)
    \/ \E key \in EntityKeys : DamageFile(key)

Spec == Init /\ [][Next]_vars

(***************************************************************************)
(* Properties of executeCommand (checked under SpecExec; they also hold of *)
(* the executor runs the service makes under Spec)                         *)
(***************************************************************************)
TheSpec == registry["test"]
Ran == exec.out.tag \notin {"none", "pending"}

\* the transition the command selects in the current state
Selected == CHOOSE t \in Range(TheSpec.states[exec.cur.state].on) : t.event = exec.cmd.event
HasTransition ==
    /\ exec.cur.state \in DOMAIN TheSpec.states
    /\ \E t \in Range(TheSpec.states[exec.cur.state].on) : t.event = exec.cmd.event

\* the shallow merge of the entity's context with the command data, written
\* key by key: a key of the data takes the data's value
ShallowMerge ==
    [k \in (DOMAIN exec.cur.context) \cup (DOMAIN exec.cmd.data) |->
        IF k \in DOMAIN exec.cmd.data THEN exec.cmd.data[k] ELSE exec.cur.context[k]]

\* an action name as a function on contexts, an absent one as the identity
Act(name, ctx) == IF name = Absent THEN ctx ELSE ActionFn(TheSpec.actions[name], ctx)
Resolves(name) == name = Absent \/ name \in DOMAIN TheSpec.actions

ActionCalls(trace) == SelectSeq(trace, LAMBDA c : c.kind = "action")
GuardCalls(trace) == SelectSeq(trace, LAMBDA c : c.kind = "guard")
Present(names) == SelectSeq(names, LAMBDA n : n # Absent)

\* C1: a returned newContext is En(Tx(Ex(merge(context, data)))): the exit
\* action of the current state, then the transition's action, then the entry
\* action of the target, each applied to the previous one's output and an
\* absent one acting as the identity; the functions called are exactly these,
\* in this order; and when the guard is absent or passes, every name resolves
\* and that context decodes, the command does return it.
C1_ActionOrder ==
    (Ran /\ HasTransition) =>
        LET Ex == TheSpec.states[exec.cur.state].exit
            Tx == IF Selected.form = "string" THEN Absent ELSE Selected.action
            En == TheSpec.states[Selected.target].entry
            G == IF Selected.form = "string" THEN Absent ELSE Selected.guard
            expected == Act(En, Act(Tx, Act(Ex, ShallowMerge)))
            passes == G = Absent
                      \/ (G \in DOMAIN TheSpec.guards
                          /\ GuardFn(TheSpec.guards[G], ShallowMerge))
        IN /\ exec.out.tag = "ok" =>
                /\ exec.out.result.newContext = expected
                /\ [i \in 1..Len(ActionCalls(exec.out.trace)) |->
                        ActionCalls(exec.out.trace)[i].name] = Present(<<Ex, Tx, En>>)
           /\ (passes /\ Resolves(Ex) /\ Resolves(Tx) /\ Resolves(En) /\ DecodeOk(expected))
                => exec.out.tag = "ok"

\* a run in which exit, transition and entry actions were all applied and the
\* exit and entry actions write the same key
C1_Witness ==
    /\ exec.out.tag = "ok"
    /\ Len(ActionCalls(exec.out.trace)) = 3
    /\ exec.out.trace[1].name = "onExit"
    /\ exec.out.trace[3].name = "onEntry"
    /\ exec.out.result.newContext["message"] = Str("entered")
    /\ exec.out.result.newContext["count"] = Num(MaxCount + 1)

\* C3: every call of a guard function receives the shallow merge of the
\* entity's context with the command data (data overriding), and no action
\* has been called before it; a resolving guard is called exactly once.
C3_GuardSeesMergedContext ==
    Ran =>
        /\ \A i \in 1..Len(exec.out.trace) :
              exec.out.trace[i].kind = "guard" =>
                  /\ exec.out.trace[i].arg = ShallowMerge
                  /\ \A j \in 1..(i - 1) : exec.out.trace[j].kind # "action"
        /\ (HasTransition /\ Selected.form = "object" /\ Selected.guard \in DOMAIN TheSpec.guards)
              => Len(GuardCalls(exec.out.trace)) = 1

\* a guard was called on a merge in which the command's count replaced the
\* entity's, and actions ran after it
C3_Witness ==
    /\ exec.out.tag = "ok"
    /\ Len(GuardCalls(exec.out.trace)) = 1
    /\ Len(ActionCalls(exec.out.trace)) >= 2
    /\ "count" \in DOMAIN exec.cur.context
    /\ "count" \in DOMAIN exec.cmd.data
    /\ exec.cur.context["count"] # exec.cmd.data["count"]
    /\ exec.out.trace[1].arg["count"] = exec.cmd.data["count"]
    /\ exec.out.result.newContext # exec.out.trace[1].arg

KeyOf(command) == <<command.actorType, command.actorId>>
IsExecute(c) == c.op = "execute"

\* what the executor was given and what the selected transition names,
\* evaluated in the state after the call
ExitName == TheSpec.states[exec.cur.state].exit
ActionName == IF Selected.form = "string" THEN Absent ELSE Selected.action
GuardName == IF Selected.form = "string" THEN Absent ELSE Selected.guard
EntryName == TheSpec.states[Selected.target].entry
GuardIsFalse ==
    /\ HasTransition
    /\ GuardName \in DOMAIN TheSpec.guards
    /\ ~GuardFn(TheSpec.guards[GuardName], ShallowMerge)
GuardLetsThrough ==
    /\ HasTransition
    /\ \/ GuardName = Absent
       \/ GuardName \in DOMAIN TheSpec.guards /\ GuardFn(TheSpec.guards[GuardName], ShallowMerge)
AfterAllActions == Act(EntryName, Act(ActionName, Act(ExitName, ShallowMerge)))

\* C2: when the selected transition names a guard and the guard is false on
\* the merged context, the command fails with GuardFailedError naming that
\* guard, no action function is called, nothing is saved, and the stored
\* state (name, context, version) and history of every entity are as before.
C2_GuardFailureChangesNothing ==
    [][(IsExecute(call') /\ call'.ran /\ GuardIsFalse') =>
            /\ call'.out.tag = "GuardFailedError"
            /\ call'.out.error.guard = GuardName'
            /\ ActionCalls(call'.out.trace) = <<>>
            /\ call'.saves = <<>>
            /\ files' = files]_vars

\* a stored entity whose COMPLETE is refused by canStart although the state
\* has an exit action, the transition an action and the target an entry action
C2_Witness ==
    /\ IsExecute(call)
    /\ call.out.tag = "GuardFailedError"
    /\ files[KeyOf(call.command)].exists
    /\ files[KeyOf(call.command)].state.version >= 1
    /\ ExitName # Absent /\ ActionName # Absent /\ EntryName # Absent

\* C4: when the guard lets the command through, every action resolves and the
\* context after the last action does not decode against the schema, the
\* command fails with ValidationError, no save call is made and the stored
\* state, version and history of every entity are as before; ValidationError
\* is raised only after all the declared actions have been applied.
C4_ValidationIsLastGate ==
    [][(IsExecute(call') /\ call'.ran) =>
            /\ (GuardLetsThrough' /\ Resolves(ExitName)' /\ Resolves(ActionName)'
                    /\ Resolves(EntryName)' /\ ~DecodeOk(AfterAllActions'))
                => /\ call'.out.tag = "ValidationError"
                   /\ call'.saves = <<>>
                   /\ files' = files
            /\ call'.out.tag = "ValidationError"
                => Len(ActionCalls(call'.out.trace))
                        = Len(Present(<<ExitName', ActionName', EntryName'>>))]_vars

\* an action of a stored entity produced a count that is not a number
C4_Witness ==
    /\ IsExecute(call)
    /\ call.out.tag = "ValidationError"
    /\ files[KeyOf(call.command)].exists
    /\ Len(ActionCalls(call.out.trace)) >= 1
    /\ DecodeOk(ShallowMerge)

\* C7: an execute that fails (no spec, or any failure of executeCommand) makes
\* no save call, hands the caller the executor's error as it is, and leaves
\* the stored state and history of every entity as they were.
C7_FailureLeavesStorageAlone ==
    [][(IsExecute(call') /\ call'.out.tag # "ok") =>
            /\ call'.saves = <<>>
            /\ files' = files
            /\ nextId' = nextId
            /\ call'.ran => call'.out = exec'.out
            /\ ~call'.ran => (call'.out.tag = "SpecNotFoundError" /\ call'.loads = 0)]_vars

\* a command on a stored entity failed in the executor while another entity
\* is stored too
C7_Witness ==
    /\ IsExecute(call)
    /\ call.ran
    /\ call.out.tag \in {"TransitionNotAllowedError", "GuardNotFoundError",
                         "ActionNotFoundError", "ValidationError"}
    /\ \A id \in ActorIds : files[<<"test", id>>].exists

\* C8: a successful execute makes exactly one save call, carrying the new
\* state and one audit entry with result "success", and the entity's stored
\* history is the history before the call with that one entry added; a failed
\* execute makes no save call and changes no history. (The code does not
\* satisfy the part on the history: after the load failure of C9 the fs-json
\* save rewrites the file with the new entry alone.)
Entries(audit) == Range(audit)

C10_FirstCommandFromInitialState ==
    [][(IsExecute(call') /\ call'.ran /\ ~files[KeyOf(call'.command)].exists) =>
            /\ exec'.cur.state = TheSpec.initial
            /\ exec'.cur.context = EmptyCtx
            /\ exec'.cur.version = 0
            /\ exec'.cur.id = call'.command.actorId
            /\ exec'.cur.actorType = call'.command.actorType
            /\ call'.out.tag = "ok" =>
                    /\ files'[KeyOf(call'.command)].exists
                    /\ files'[KeyOf(call'.command)].state.version = 1
                    /\ call'.out.result.from = TheSpec.initial]_vars

\* the first command on an entity succeeded
C10_Witness ==
    /\ IsExecute(call)
    /\ call.out.tag = "ok"
    /\ exec.cur.version = 0
    /\ exec.cur.context = EmptyCtx
    /\ files[KeyOf(call.command)].state.version = 1
    /\ Len(files[KeyOf(call.command)].audit) = 1

\* the version last written for an entity, 0 when nothing was ever written
StoredVersion(fs, key) == IF fs[key].exists THEN fs[key].state.version ELSE 0

\* C6: the stored version of an entity never decreases and is never reset,
\* and each successful execute stores exactly the previously stored version
\* plus one. (The code does not satisfy this: see C9.)
C6_VersionGrowsByOne ==
    [][/\ \A k \in EntityKeys :
            /\ files[k].exists => files'[k].exists
            /\ StoredVersion(files', k) >= StoredVersion(files, k)
       /\ (IsExecute(call') /\ call'.out.tag = "ok") =>
            StoredVersion(files', KeyOf(call'.command))
                = StoredVersion(files, KeyOf(call'.command)) + 1]_vars

\* C9: the initial state is synthesized only when load reports not-found;
\* when the entity has a stored state and load fails for another reason (its
\* file does not parse), execute fails with the StorageError, the executor is
\* not run and the stored state is not overwritten. (The code does not
\* satisfy this: Effect.orElse replaces every load failure.)
C9_OnlyNotFoundInitializes ==
    [][(IsExecute(call') /\ call'.loads = 1) =>
            LET key == KeyOf(call'.command) IN
            (files[key].exists /\ ~files[key].parsable) =>
                /\ call'.out.tag = "StorageError"
                /\ exec' = exec
                /\ files' = files]_vars

\* C11: after a successful execute that returned r, the state stored for the
\* entity has state name r.to and context r.newContext, and the audit entry
\* saved in the same call (and now in the stored history) has from = r.from,
\* to = r.to, the command's event and result "success".
C11_PersistedMatchesResult ==
    [][(IsExecute(call') /\ call'.out.tag = "ok") =>
            LET key == KeyOf(call'.command)
                r == call'.out.result
            IN /\ files'[key].exists
               /\ files'[key].state.state = r.to
               /\ files'[key].state.context = r.newContext
               /\ Len(call'.saves) = 1
               /\ call'.saves[1].state = files'[key].state
               /\ call'.saves[1].audit.from = r.from
               /\ call'.saves[1].audit.to = r.to
               /\ call'.saves[1].audit.event = call'.command.event
               /\ call'.saves[1].audit.result = "success"
               /\ call'.saves[1].audit \in Entries(files'[key].audit)]_vars

\* a stored entity moved to another state and its actions changed the context
C11_Witness ==
    /\ IsExecute(call)
    /\ call.out.tag = "ok"
    /\ call.out.result.from = "active"
    /\ call.out.result.to = "done"
    /\ call.out.result.newContext # call.out.result.oldContext
    /\ files[KeyOf(call.command)].state.state = "done"
    /\ files[KeyOf(call.command)].state.version = 2

\* C12: the audit history of an entity is append-only on both backends: an
\* entry once written stays in the stored history, unchanged, after every
\* later operation, and the history never shrinks. (The code does not satisfy
\* this: the fs-json save replaces a history it cannot load by the new entry
\* alone, and after the load failure of C9 execute goes on to that save.)
C12_HistoryAppendOnly ==
    [][\A k \in EntityKeys :
            /\ Len(files'[k].audit) >= Len(files[k].audit)
            /\ \A e \in Entries(files[k].audit) : e \in Entries(files'[k].audit)]_vars

(***************************************************************************)
(* Storage getHistory, and the read operations of ActorService             *)
(***************************************************************************)
Undefined == 0 - 1      \* an optional numeric argument that was left out
DefaultLimit == 100     \* limit ?? 100 of the in-memory getHistory

\* Array.prototype.slice(start, end) for start >= 0 and end >= 0
Slice(seq, start, end) ==
    LET e == IF end > Len(seq) THEN Len(seq) ELSE end
    IN IF start >= e THEN <<>> ELSE SubSeq(seq, start + 1, e)

\* [...audit].sort((a, b) => b.timestamp - a.timestamp): the sort is stable,
\* so entries with equal timestamps keep the order they have in `audit`
SortByTimestampDesc(audit) ==
    LET Before(j, i) ==
            \/ audit[j].timestamp > audit[i].timestamp
            \/ audit[j].timestamp = audit[i].timestamp /\ j < i
        Rank(i) == Cardinality({j \in 1..Len(audit) : Before(j, i)}) + 1
    IN [p \in 1..Len(audit) |-> audit[CHOOSE i \in 1..Len(audit) : Rank(i) = p]]

\* in-memory getHistory: the list as save left it, sliced
mockGetHistory(fs, key, limit, offset) ==
    LET history == fs[key].audit
        start == IF offset = Undefined THEN 0 ELSE offset
        count == IF limit = Undefined THEN DefaultLimit ELSE limit
    IN [tag |-> "ok", entries |-> Slice(history, start, start + count)]

\* fs-json getHistory: load the file, sort, slice; `limit ? ... : ...` takes
\* a limit of 0 like a missing one
fsJsonGetHistory(fs, key, limit, offset) ==
    LET data == loadFile(fs, key) IN
    IF ~data.ok
    THEN Fail("StorageError", [operation |-> "load", reason |-> data.reason], <<>>)
    ELSE
    LET sorted == SortByTimestampDesc(data.data.audit)
        start == IF offset = Undefined THEN 0 ELSE offset
        end == IF limit # Undefined /\ limit # 0 THEN start + limit ELSE Len(sorted)
    IN [tag |-> "ok", entries |-> Slice(sorted, start, end)]

\* ActorService.getHistory delegates to the storage provider
getHistory(be, fs, key, limit, offset) ==
    IF be = "memory" THEN mockGetHistory(fs, key, limit, offset)
    ELSE fsJsonGetHistory(fs, key, limit, offset)

\* query that returns whatever state is stored
queryAnyState(reg, be, fs, actorType, actorId) ==
    IF actorType \notin DOMAIN reg
    THEN Fail("SpecNotFoundError", [actorType |-> actorType], <<>>)
    ELSE
    LET loaded == load(be, fs, <<actorType, actorId>>) IN
    IF ~loaded.ok
    THEN Fail("StorageError", [operation |-> "load", reason |-> loaded.reason], <<>>)
    ELSE [tag |-> "ok", state |-> loaded.data.state]

\* ActorService.query
query(reg, be, fs, actorType, actorId) ==
    IF actorType \notin DOMAIN reg
    THEN Fail("SpecNotFoundError", [actorType |-> actorType], <<>>)
    ELSE
    LET spec == reg[actorType]
        loaded == load(be, fs, <<actorType, actorId>>)
    IN
    IF ~loaded.ok
    THEN Fail("StorageError", [operation |-> "load", reason |-> loaded.reason], <<>>)
    ELSE
    LET state == loaded.data.state IN
    IF state.state \notin Range(spec.order)
    THEN Fail("InvalidStateError", [state |-> state.state, validStates |-> spec.order], <<>>)
    ELSE [tag |-> "ok", state |-> state]

Verdict(allowed, reason, target) ==
    [tag |-> "ok", allowed |-> allowed, reason |-> reason, target |-> target]

\* ActorService.canTransition
canTransition(reg, be, fs, actorType, actorId, event) ==
    IF actorType \notin DOMAIN reg
    THEN Fail("SpecNotFoundError", [actorType |-> actorType], <<>>)
    ELSE
    LET spec == reg[actorType]
        loaded == load(be, fs, <<actorType, actorId>>)
    IN
    IF ~loaded.ok
    THEN Fail("StorageError", [operation |-> "load", reason |-> loaded.reason], <<>>)
    ELSE
    LET state == loaded.data.state
        found == IF state.state \in DOMAIN spec.states
                 THEN Lookup(spec.states[state.state].on, event)
                 ELSE {}
    IN
    IF found = {} \/ (\E t \in found : t.form = "string" /\ t.target = Absent)
    THEN Verdict(FALSE, "Event not allowed from state", Absent)
    ELSE
    LET transitionDef == Normalize(CHOOSE t \in found : TRUE) IN
    IF /\ transitionDef.guard # Absent
       /\ transitionDef.guard \in DOMAIN spec.guards
       /\ ~GuardFn(spec.guards[transitionDef.guard], state.context)
    THEN Verdict(FALSE, "Guard fails", Absent)
    ELSE Verdict(TRUE, "", transitionDef.target)

(***************************************************************************)
(* SpecOps: the service with query and canTransition, the spec registered  *)
(* and registered again                                                    *)
(***************************************************************************)
MaxClock == 1       \* the clock advances at most this many milliseconds

\* the minimal valid spec: one state, no transitions, guards or actions
MinimalSpec ==
    [id |-> "test",
     schema |-> "TestSchema",
     initial |-> "idle",
     order |-> <<"idle">>,
     states |-> [s \in {"idle"} |-> StateDef(<<>>, Absent, Absent)],
     guards |-> [n \in {} |-> ""],
     actions |-> [n \in {} |-> ""]]

\* the specs registered, and registered again, under the type "test"
OpsSpecSet ==
    {TestSpec("onExit", Absent, "increment", "onEntry", "increment"),
     TestSpec("onExit", "canStart", "increment", "onEntry", "increment"),
     TestSpec("onExit", "nonExistentGuard", "increment", "onEntry", "increment"),
     MinimalSpec}

HistoryLimits == {Undefined, 0, 1}
HistoryOffsets == {Undefined, 1}

\* commands are sent to one entity; the reads also go to an entity that was
\* never stored and to a type that has no spec
OpsCommands ==
    {Command("test", "a1", ev, d) : ev \in ServiceEvents, d \in ServiceData}
    \cup {Command("ghost", "a1", "START", EmptyCtx)}
OpsKeys == {<<"test", "a1">>, <<"test", "a2">>, <<"ghost", "a1">>}

\* the module-level `specs` map is empty when the process starts
InitOps ==
    /\ registry = [k \in {} |-> MinimalSpec]
    /\ backend \in Backends
    /\ files = [k \in EntityKeys |-> NoFile]
    /\ nextId = 0
    /\ exec = NoExec
    /\ call = NoCall
    /\ clock = 0
    /\ inflight = NoInflight
    /\ actor = NoActor
    /\ val = NoVal

\* register that leaves a spec already registered under the id in place
registerKeepsFirst(reg, spec) ==
    [k \in (DOMAIN reg) \cup {spec.id} |-> IF k \in DOMAIN reg THEN reg[k] ELSE spec]

\* SpecRegistry.register: specs.set(spec.id, spec), no validation
register(reg, spec) ==
    [k \in (DOMAIN reg) \cup {spec.id} |-> IF k = spec.id THEN spec ELSE reg[k]]

Register(spec) ==
    /\ registry' = register(registry, spec)
    /\ call' = [op |-> "register", id |-> spec.id, spec |-> spec]
    /\ UNCHANGED <<backend, files, nextId, exec, clock, val, inflight, actor>>

Tick ==
    /\ clock < MaxClock
    /\ clock' = clock + 1
    /\ call' = [op |-> "tick"]
    /\ UNCHANGED <<registry, backend, files, nextId, exec, val, inflight, actor>>

\* the functions of the spec canTransition calls: the guard of the transition
\* when it names one the spec has; query, list, getHistory and getSpec call none
canTransitionCalls(reg, be, fs, actorType, actorId, event) ==
    IF actorType \notin DOMAIN reg \/ ~load(be, fs, <<actorType, actorId>>).ok
    THEN <<>>
    ELSE
    LET spec == reg[actorType]
        state == load(be, fs, <<actorType, actorId>>).data.state
        found == IF state.state \in DOMAIN spec.states
                 THEN Lookup(spec.states[state.state].on, event)
                 ELSE {}
    IN
    IF found = {} \/ (\E t \in found : t.form = "string" /\ t.target = Absent)
    THEN <<>>
    ELSE
    LET transitionDef == Normalize(CHOOSE t \in found : TRUE) IN
    IF transitionDef.guard # Absent /\ transitionDef.guard \in DOMAIN spec.guards
    THEN <<[kind |-> "guard", name |-> transitionDef.guard]>>
    ELSE <<>>

\* a read that writes the state it loaded back with the next version
storeAfterReadTouched(be, fs, key) ==
    IF load(be, fs, key).ok
    THEN [fs EXCEPT ![key].state.version = @ + 1]
    ELSE fs

\* the store after query, getHistory or canTransition on `key`: they call
\* storage.load or storage.getHistory only, which write nothing (the fs-json
\* getHistory sorts a copy of the list it read)
storeAfterRead(be, fs, key) == fs

Query(actorType, actorId) ==
    /\ call' = [op |-> "query", key |-> <<actorType, actorId>>, calls |-> <<>>,
                out |-> query(registry, backend, files, actorType, actorId)]
    /\ files' = storeAfterRead(backend, files, <<actorType, actorId>>)
    /\ UNCHANGED <<registry, backend, nextId, exec, clock, val, inflight, actor>>

CanTransition(actorType, actorId, event) ==
    /\ call' = [op |-> "canTransition", key |-> <<actorType, actorId>>, event |-> event,
                calls |-> canTransitionCalls(registry, backend, files,
                                             actorType, actorId, event),
                out |-> canTransition(registry, backend, files, actorType, actorId, event)]
    /\ files' = storeAfterRead(backend, files, <<actorType, actorId>>)
    /\ UNCHANGED <<registry, backend, nextId, exec, clock, val, inflight, actor>>

GetHistory(key, limit, offset) ==
    /\ call' = [op |-> "getHistory", key |-> key, limit |-> limit, offset |-> offset,
                calls |-> <<>>,
                out |-> getHistory(backend, files, key, limit, offset)]
    /\ files' = storeAfterRead(backend, files, key)
    /\ UNCHANGED <<registry, backend, nextId, exec, clock, val, inflight, actor>>

NextOps ==
    \/ \E spec \in OpsSpecSet : Register(spec)
    \/ \E command \in OpsCommands : Execute(command)
    \/ \E key \in OpsKeys : DamageFile(key)
    \/ \E key \in OpsKeys : Query(key[1], key[2])
    \/ \E key \in OpsKeys, event \in ServiceEvents : CanTransition(key[1], key[2], event)

SpecOps == InitOps /\ [][NextOps]_vars

(***************************************************************************)
(* SpecHist: executes at clock times that may or may not differ, and       *)
(* getHistory                                                              *)
(***************************************************************************)
InitHist ==
    /\ registry = [k \in {"test"} |->
                        TestSpec("onExit", Absent, "increment", "onEntry", "increment")]
    /\ backend \in Backends
    /\ files = [k \in EntityKeys |-> NoFile]
    /\ nextId = 0
    /\ exec = NoExec
    /\ call = NoCall
    /\ clock = 0
    /\ inflight = NoInflight
    /\ actor = NoActor
    /\ val = NoVal

NextHist ==
    \/ Tick
    \/ \E command \in OpsCommands : Execute(command)
    \/ \E key \in OpsKeys : DamageFile(key)
    \/ \E key \in OpsKeys, limit \in HistoryLimits, offset \in HistoryOffsets :
            GetHistory(key, limit, offset)

SpecHist == InitHist /\ [][NextHist]_vars

(***************************************************************************)
(* Properties of getHistory (checked under SpecHist). Audit ids are handed *)
(* out in increasing order, so of two entries the one with the larger id   *)
(* was written later.                                                      *)
(***************************************************************************)
\* C13: getHistory returns an entity's entries newest-first on both backends:
\* of any two entries in the returned list, the one written later comes
\* first, also when both carry the same timestamp. (The code does not satisfy
\* this: the fs-json getHistory orders by timestamp only, and its stable sort
\* leaves entries of one millisecond in the order they were appended.)
C13_HistoryNewestFirst ==
    (call.op = "getHistory" /\ call.out.tag = "ok") =>
        \A i, j \in 1..Len(call.out.entries) :
            i < j => call.out.entries[i].id > call.out.entries[j].id

(***************************************************************************)
(* Properties of query and canTransition (checked under SpecOps). The      *)
(* reads change neither the registry nor the storage, so the state in      *)
(* which call records a read is the state the read saw.                    *)
(***************************************************************************)
\* C14: query(type, id) fails with SpecNotFound when no spec is registered
\* under the type and with the storage's error when no state can be loaded;
\* otherwise it returns the stored state exactly when the stored state name
\* is a key of the states of the spec now registered under the type, and
\* fails with InvalidState carrying the stored state name exactly when it is
\* not.
C14_QueryChecksStateName ==
    call.op = "query" =>
        LET type == call.key[1]
            file == files[call.key]
        IN IF type \notin DOMAIN registry
           THEN /\ call.out.tag = "SpecNotFoundError"
                /\ call.out.error.actorType = type
           ELSE IF ~file.exists \/ ~file.parsable
           THEN call.out.tag = "StorageError"
           ELSE LET known == file.state.state \in DOMAIN registry[type].states IN
                /\ known <=> call.out.tag = "ok"
                /\ known => call.out.state = file.state
                /\ ~known <=> call.out.tag = "InvalidStateError"
                /\ ~known => call.out.error.state = file.state.state

\* the entity was stored in `active`, then the type was registered again with
\* a spec that has no such state
C14_Witness ==
    /\ call.op = "query"
    /\ call.out.tag = "InvalidStateError"
    /\ call.out.error.state = "active"
    /\ files[call.key].state.state = "active"
    /\ registry["test"] = MinimalSpec

\* what execute would do with the event and no data, on the storage as it is
DryRun(key, event) ==
    execute(registry, backend, files, 0, 0, Command(key[1], key[2], event, EmptyCtx))

PassesStepsOneToFive(out) ==
    out.tag \notin {"InvalidStateError", "TransitionNotAllowedError",
                    "GuardNotFoundError", "GuardFailedError"}

\* the target of the transition the event selects in the state execute starts from
DryRunTarget(key, event) ==
    LET cur == DryRun(key, event).exec.cur
        t == CHOOSE t \in Lookup(registry[key[1]].states[cur.state].on, event) : TRUE
    IN t.target

\* C15: canTransition(type, id, event) answers for every entity of a
\* registered type, also one with no stored state (execute would start that
\* one from the initial state): allowed = true with the transition's target
\* exactly when execute with the same event and no data would not fail with
\* InvalidState, TransitionNotAllowed, GuardNotFound or GuardFailed, and
\* allowed = false with a reason otherwise. (The code does not satisfy this:
\* canTransition fails with the load's StorageError when nothing is stored,
\* and it answers allowed = true when the guard is not in spec.guards.)
C15_CanTransitionIsDryRun ==
    (call.op = "canTransition" /\ call.key[1] \in DOMAIN registry) =>
        LET passes == PassesStepsOneToFive(DryRun(call.key, call.event).out) IN
        /\ call.out.tag = "ok"
        /\ call.out.allowed <=> passes
        /\ call.out.allowed => call.out.target = DryRunTarget(call.key, call.event)
        /\ ~call.out.allowed => call.out.reason # ""

(***************************************************************************)
(* validateSpec                                                            *)
(***************************************************************************)
ValidOk == [tag |-> "ok"]

\* validateTransition that checks the target and the action, not the guard
validateTransitionNoGuard(spec, transitionDef) ==
    LET transition == Normalize(transitionDef) IN
    IF transition.target # Absent /\ transition.target \notin DOMAIN spec.states
    THEN Fail("SpecError",
              [reason |-> <<"Transition target", transition.target,
                            "does not exist in states">>], <<>>)
    ELSE IF transition.action # Absent /\ transition.action \notin DOMAIN spec.actions
    THEN Fail("ActionNotFoundError", [action |-> transition.action], <<>>)
    ELSE ValidOk

\* validateTransition: target, then guard, then action; each is looked at
\* only when it is truthy (`transition.target && ...`)
validateTransition(spec, transitionDef) ==
    LET transition == Normalize(transitionDef) IN
    IF transition.target # Absent /\ transition.target \notin DOMAIN spec.states
    THEN Fail("SpecError",
              [reason |-> <<"Transition target", transition.target,
                            "does not exist in states">>], <<>>)
    ELSE IF transition.guard # Absent /\ transition.guard \notin DOMAIN spec.guards
    THEN Fail("GuardNotFoundError", [guard |-> transition.guard], <<>>)
    ELSE IF transition.action # Absent /\ transition.action \notin DOMAIN spec.actions
    THEN Fail("ActionNotFoundError", [action |-> transition.action], <<>>)
    ELSE ValidOk

\* for (const transitionDef of Object.values(stateDef.on)): the first failure
\* ends the loop
RECURSIVE validateTransitions(_, _, _)
validateTransitions(spec, on, i) ==
    IF i > Len(on) THEN ValidOk
    ELSE LET result == validateTransition(spec, on[i]) IN
         IF result.tag # "ok" THEN result
         ELSE validateTransitions(spec, on, i + 1)

\* validateStateDefinition: entry action, exit action, then the transitions
validateStateDefinition(spec, stateName, stateDef) ==
    IF stateDef.entry # Absent /\ stateDef.entry \notin DOMAIN spec.actions
    THEN Fail("ActionNotFoundError", [action |-> stateDef.entry], <<>>)
    ELSE IF stateDef.exit # Absent /\ stateDef.exit \notin DOMAIN spec.actions
    THEN Fail("ActionNotFoundError", [action |-> stateDef.exit], <<>>)
    ELSE validateTransitions(spec, stateDef.on, 1)

\* 4. for (const stateName of stateNames): one state after the other, each
\* with its entry, exit and transitions
RECURSIVE validateStates(_, _)
validateStates(spec, i) ==
    IF i > Len(spec.order) THEN ValidOk
    ELSE LET result == validateStateDefinition(spec, spec.order[i],
                                               spec.states[spec.order[i]])
         IN IF result.tag # "ok" THEN result
            ELSE validateStates(spec, i + 1)

\* pushed that follows only the transitions written as a string
pushedStringsOnly(spec, stateDef, reachableStates) ==
    LET strings == SelectSeq(stateDef.on, LAMBDA t : t.form = "string")
        targets == [i \in 1..Len(strings) |-> strings[i].target]
    IN SelectSeq(targets, LAMBDA target :
            /\ target # Absent
            /\ target \notin reachableStates
            /\ target \in Range(spec.order))

\* the targets pushed while one state is scanned: truthy, not yet reached,
\* and a state name
pushed(spec, stateDef, reachableStates) ==
    LET targets == [i \in 1..Len(stateDef.on) |-> stateDef.on[i].target]
    IN SelectSeq(targets, LAMBDA target :
            /\ target # Absent
            /\ target \notin reachableStates
            /\ target \in Range(spec.order))

\* 5. the breadth-first scan: while (queue.length > 0) { ... }
RECURSIVE scan(_, _, _)
scan(spec, queue, reachableStates) ==
    IF queue = <<>> THEN reachableStates
    ELSE LET currentState == Head(queue) IN
         IF currentState \in reachableStates
         THEN scan(spec, Tail(queue), reachableStates)
         ELSE LET reached == reachableStates \cup {currentState}
              IN scan(spec,
                      Tail(queue) \o pushed(spec, spec.states[currentState], reached),
                      reached)

\* the states the warning lists, in declaration order
unreachableStates(spec) ==
    LET reachableStates == scan(spec, <<spec.initial>>, {})
    IN SelectSeq(spec.order, LAMBDA name : name \notin reachableStates)

\* spec.id.trim() === ""
IsBlank(id) == id \in {"", " "}

\* validateSpec that looks at the state definitions before the initial state
validateSpecStatesFirst(spec) ==
    IF IsBlank(spec.id)
    THEN Fail("SpecError", [reason |-> <<"Actor spec must have a non-empty string ID">>], <<>>)
    ELSE IF spec.schema = Absent
    THEN Fail("SpecError", [reason |-> <<"Actor spec must have a schema">>], <<>>)
    ELSE LET result == validateStates(spec, 1) IN
         IF result.tag # "ok" THEN result
         ELSE IF spec.initial \notin Range(spec.order)
         THEN Fail("InvalidStateError",
                   [state |-> spec.initial, validStates |-> spec.order], <<>>)
         ELSE [tag |-> "ok", warned |-> unreachableStates(spec)]

validateSpec(spec) ==
    IF IsBlank(spec.id)
    THEN Fail("SpecError", [reason |-> <<"Actor spec must have a non-empty string ID">>], <<>>)
    ELSE IF spec.schema = Absent
    THEN Fail("SpecError", [reason |-> <<"Actor spec must have a schema">>], <<>>)
    ELSE IF spec.initial \notin Range(spec.order)
    THEN Fail("InvalidStateError",
              [state |-> spec.initial, validStates |-> spec.order], <<>>)
    ELSE LET result == validateStates(spec, 1) IN
         IF result.tag # "ok" THEN result
         ELSE [tag |-> "ok", warned |-> unreachableStates(spec)]

\* validateSpec that drops the states it found unreachable from the spec
specAfterValidationPruned(spec) ==
    IF validateSpec(spec).tag = "ok"
    THEN [spec EXCEPT !.order =
            SelectSeq(spec.order,
                      LAMBDA name : name \in scan(spec, <<spec.initial>>, {}))]
    ELSE spec

\* the spec object after a call of validateSpec: the function reads spec.id,
\* spec.schema, spec.initial, spec.states, spec.guards and spec.actions and
\* assigns to none of them; its queue and its set of reachable states are
\* locals built from spec.initial
specAfterValidation(spec) == spec

\* number of calls of validateSpec on one spec
MaxRuns == 2

(***************************************************************************)
(* SpecValidate: validateSpec applied to a drawn spec, MaxRuns times       *)
(***************************************************************************)
\* the spec "with guards and actions" of the validator's tests, with a third
\* state `done`; the id, the schema, the initial state, the START transition,
\* the entry and exit actions of `active`, the target of STOP, the guard of
\* CANCEL and the entry action of `done` are parameters
ValSpec(id, schema, initial, start, entry, exit, stop, cancelGuard, doneEntry) ==
    [id |-> id,
     schema |-> schema,
     initial |-> initial,
     order |-> <<"idle", "active", "done">>,
     states |->
        [s \in {"idle", "active", "done"} |->
            CASE s = "idle" -> StateDef(<<start>>, Absent, Absent)
              [] s = "active" ->
                    StateDef(<<StrT("STOP", stop),
                               ObjT("CANCEL", "idle", cancelGuard, Absent)>>,
                             entry, exit)
              [] OTHER -> StateDef(<<>>, doneEntry, Absent)],
     guards |-> [n \in {"canStart"} |-> "canStart"],
     actions |-> [n \in {"initialize", "onEntry", "onExit"} |-> n]]

ValIds == {"test", "", " "}
ValSchemas == {"TestSchema", Absent}
ValInitials == {"idle", "done", "nonexistent"}
ValTargets == {"idle", "active", "done", "nonexistent", Absent}
ValGuards == {Absent, "canStart", "nonexistentGuard"}
ValActions == {Absent, "initialize", "alsoNonexistent"}

\* START in string form and in object form
ValStarts ==
    {StrT("START", target) : target \in ValTargets}
    \cup {ObjT("START", target, guard, action) :
            target \in ValTargets, guard \in ValGuards, action \in ValActions}

ValEntries == {Absent, "onEntry", "missingEntry"}
ValExits == {Absent, "onExit", "missingExit"}
ValCancelGuards == {Absent, "missingGuard"}
ValDoneEntries == {Absent, "missingDoneEntry"}

InitValidate ==
    /\ registry = [k \in {} |-> MinimalSpec]
    /\ backend = "memory"
    /\ files = [k \in EntityKeys |-> NoFile]
    /\ nextId = 0
    /\ exec = NoExec
    /\ call = NoCall
    /\ clock = 0
    /\ inflight = NoInflight
    /\ actor = NoActor
    /\ \E id \in ValIds, schema \in ValSchemas, initial \in ValInitials,
          start \in ValStarts, entry \in ValEntries, exit \in ValExits,
          stop \in ValTargets, cancelGuard \in ValCancelGuards,
          doneEntry \in ValDoneEntries :
            val = [spec |-> ValSpec(id, schema, initial, start, entry, exit, stop,
                                    cancelGuard, doneEntry),
                   out |-> Pending,
                   runs |-> 0]

\* one call of validateSpec on the spec the caller holds; the caller may call
\* again on the same object
RunValidator ==
    /\ val.runs < MaxRuns
    /\ val' = [spec |-> specAfterValidation(val.spec),
               out |-> validateSpec(val.spec),
               runs |-> val.runs + 1]
    /\ UNCHANGED <<registry, backend, files, nextId, exec, call, clock, inflight, actor>>

NextValidate == RunValidator

SpecValidate == InitValidate /\ [][NextValidate]_vars

(***************************************************************************)
(* Properties of validateSpec (checked under SpecValidate). The structural *)
(* rules are stated on the spec as a whole, without an order of checking.  *)
(***************************************************************************)
Validated == val.out.tag \notin {"none", "pending"}

TransitionsOf(s) == Range(val.spec.states[s].on)
HooksOf(s) == {val.spec.states[s].entry, val.spec.states[s].exit} \ {Absent}

\* an id that is empty or holds only white space counts as empty
HasId == val.spec.id \notin {"", " "}
HasSchema == val.spec.schema # Absent
InitialIsState == val.spec.initial \in DOMAIN val.spec.states
HooksResolve ==
    \A s \in DOMAIN val.spec.states : HooksOf(s) \subseteq DOMAIN val.spec.actions
TargetResolves(t) == t.target \in DOMAIN val.spec.states
GuardResolves(t) == t.guard = Absent \/ t.guard \in DOMAIN val.spec.guards
ActionResolves(t) == t.action = Absent \/ t.action \in DOMAIN val.spec.actions
TransitionsResolve ==
    \A s \in DOMAIN val.spec.states : \A t \in TransitionsOf(s) :
        TargetResolves(t) /\ GuardResolves(t) /\ ActionResolves(t)

\* C16: validateSpec succeeds if and only if the spec has a non-empty id, has
\* a schema, its initial state is a key of states, every entry and exit
\* action resolves in actions, and every transition's target resolves in
\* states, its guard (if any) in guards and its action (if any) in actions.
\* (The code does not satisfy this: a transition whose target is the empty
\* string is not checked and the spec is accepted.)
C16_ValidIffStructuralRules ==
    Validated =>
        (val.out.tag = "ok" <=>
            (HasId /\ HasSchema /\ InitialIsState /\ HooksResolve /\ TransitionsResolve))

\* C17: a spec with a non-empty id and a schema whose initial state is not a
\* key of states fails validation with InvalidState whose `state` is the
\* spec's initial state, whatever else is wrong in its states.
C17_InitialStateChecked ==
    (Validated /\ HasId /\ HasSchema /\ ~InitialIsState) =>
        /\ val.out.tag = "InvalidStateError"
        /\ val.out.error.state = val.spec.initial

\* the initial state is unknown and the states have dangling references of
\* every kind
C17_Witness ==
    /\ val.out.tag = "InvalidStateError"
    /\ val.out.error.state = "nonexistent"
    /\ ~HooksResolve
    /\ \E t \in TransitionsOf("idle") :
            ~TargetResolves(t) /\ ~GuardResolves(t) /\ ~ActionResolves(t)

\* the dangling references of the spec, by kind
DanglingTargets ==
    {t.target : t \in {u \in UNION {TransitionsOf(s) : s \in DOMAIN val.spec.states} :
                            ~TargetResolves(u)}}
DanglingGuards ==
    {t.guard : t \in {u \in UNION {TransitionsOf(s) : s \in DOMAIN val.spec.states} :
                            ~GuardResolves(u)}}
DanglingActions ==
    {t.action : t \in {u \in UNION {TransitionsOf(s) : s \in DOMAIN val.spec.states} :
                            ~ActionResolves(u)}}
    \cup (UNION {HooksOf(s) : s \in DOMAIN val.spec.states} \ DOMAIN val.spec.actions)

\* C18: a spec that passes the checks of id, schema and initial state and has
\* a dangling reference is rejected, with the error that names a dangling
\* reference: SpecError whose reason names a target that is not a key of
\* states (string or object form), GuardNotFound{guard} for a guard absent
\* from guards, ActionNotFound{action} for a transition, entry or exit action
\* absent from actions. (The code does not satisfy this: a target that is the
\* empty string is never reported, see C16.)
C18_DanglingReferencesRejected ==
    (Validated /\ HasId /\ HasSchema /\ InitialIsState) =>
        /\ (DanglingTargets \cup DanglingGuards \cup DanglingActions) # {}
                => val.out.tag # "ok"
        /\ val.out.tag = "SpecError" => val.out.error.reason[2] \in DanglingTargets
        /\ val.out.tag = "GuardNotFoundError" => val.out.error.guard \in DanglingGuards
        /\ val.out.tag = "ActionNotFoundError" => val.out.error.action \in DanglingActions
        /\ (DanglingTargets # {} /\ DanglingGuards = {} /\ DanglingActions = {})
                => val.out.tag = "SpecError"
        /\ (DanglingTargets = {} /\ DanglingGuards # {} /\ DanglingActions = {})
                => val.out.tag = "GuardNotFoundError"
        /\ (DanglingTargets = {} /\ DanglingGuards = {} /\ DanglingActions # {})
                => val.out.tag = "ActionNotFoundError"

\* the violations of the spec in the order of checks 1 to 5: id, schema,
\* initial state, the entry and exit actions of every state, then the
\* transitions of every state, each list in declaration order
Violation(tag, name) == [tag |-> tag, name |-> name]

HeadChecks ==
    (IF HasId THEN <<>> ELSE <<Violation("SpecError", "id")>>)
    \o (IF HasSchema THEN <<>> ELSE <<Violation("SpecError", "schema")>>)
    \o (IF InitialIsState THEN <<>>
        ELSE <<Violation("InvalidStateError", val.spec.initial)>>)

HookViolations(s) ==
    LET def == val.spec.states[s]
        bad(name) == name # Absent /\ name \notin DOMAIN val.spec.actions
    IN (IF bad(def.entry) THEN <<Violation("ActionNotFoundError", def.entry)>> ELSE <<>>)
       \o (IF bad(def.exit) THEN <<Violation("ActionNotFoundError", def.exit)>> ELSE <<>>)

TransitionViolations(t) ==
    (IF TargetResolves(t) THEN <<>> ELSE <<Violation("SpecError", t.target)>>)
    \o (IF GuardResolves(t) THEN <<>> ELSE <<Violation("GuardNotFoundError", t.guard)>>)
    \o (IF ActionResolves(t) THEN <<>> ELSE <<Violation("ActionNotFoundError", t.action)>>)

RECURSIVE Flatten(_)
Flatten(seqs) == IF seqs = <<>> THEN <<>> ELSE Head(seqs) \o Flatten(Tail(seqs))

StateTransitionViolations(s) ==
    Flatten([i \in 1..Len(val.spec.states[s].on) |->
                TransitionViolations(val.spec.states[s].on[i])])

ViolationsInCheckOrder ==
    HeadChecks
    \o Flatten([i \in 1..Len(val.spec.order) |-> HookViolations(val.spec.order[i])])
    \o Flatten([i \in 1..Len(val.spec.order) |->
                    StateTransitionViolations(val.spec.order[i])])

\* what the outcome of validateSpec names
Reported ==
    CASE val.out.tag = "InvalidStateError" -> Violation(val.out.tag, val.out.error.state)
      [] val.out.tag = "GuardNotFoundError" -> Violation(val.out.tag, val.out.error.guard)
      [] val.out.tag = "ActionNotFoundError" -> Violation(val.out.tag, val.out.error.action)
      [] val.out.tag = "SpecError" /\ Len(val.out.error.reason) = 3 ->
            Violation(val.out.tag, val.out.error.reason[2])
      [] val.out.tag = "SpecError" /\ val.out.error.reason[1] = "Actor spec must have a schema" ->
            Violation(val.out.tag, "schema")
      [] OTHER -> Violation(val.out.tag, "id")

\* C19: validateSpec succeeds when the spec has no violation and otherwise
\* reports the first one in the order of checks 1 to 5: id, schema, initial
\* state, then the entry and exit action references of every state, then the
\* outgoing transitions (target before guard before action), states and
\* events in declaration order. (The code does not satisfy this: it checks
\* state by state, the transitions of a state before the entry and exit
\* actions of the next one, and it never reports an empty target, see C16.)
C19_FirstViolationInCheckOrder ==
    Validated =>
        IF ViolationsInCheckOrder = <<>>
        THEN val.out.tag = "ok"
        ELSE Reported = ViolationsInCheckOrder[1]

\* the states reachable from the initial state by following transition
\* targets, as the closure of the one-step successor relation
Successors(S) ==
    S \cup ({t.target : t \in UNION {TransitionsOf(s) : s \in S}}
                \cap DOMAIN val.spec.states)

RECURSIVE Closure(_, _)
Closure(S, n) == IF n = 0 THEN S ELSE Closure(Successors(S), n - 1)

ReachableFromInitial ==
    Closure({val.spec.initial}, Cardinality(DOMAIN val.spec.states))

\* C20: a spec that satisfies the structural rules is accepted, whether or
\* not it has unreachable states, and the states validateSpec reports as
\* unreachable are exactly the states not reachable from the initial state
\* by following transition targets, each listed once; the scan ends on
\* graphs with cycles and self-loops.
C20_UnreachableStatesReported ==
    Validated =>
        /\ (HasId /\ HasSchema /\ InitialIsState /\ HooksResolve /\ TransitionsResolve)
                => val.out.tag = "ok"
        /\ val.out.tag = "ok" =>
                /\ Range(val.out.warned) = DOMAIN val.spec.states \ ReachableFromInitial
                /\ Len(val.out.warned) = Cardinality(Range(val.out.warned))

\* idle and active form a cycle (START, STOP and CANCEL), active has no way
\* to `done`, and `done` is reported
C20_Witness ==
    /\ val.out.tag = "ok"
    /\ val.spec.initial = "idle"
    /\ \E t \in TransitionsOf("idle") : t.form = "object" /\ t.target = "active"
    /\ \E t \in TransitionsOf("active") : t.event = "STOP" /\ t.target = "idle"
    /\ val.out.warned = <<"done">>

Accepted == validateSpec(TheSpec).tag = "ok"

\* the action names the command reaches that do not resolve, in step order
DanglingReached ==
    SelectSeq(<<ExitName, ActionName, EntryName>>, LAMBDA n : ~Resolves(n))

C22_ValidatedSpecResolves ==
    Ran =>
        /\ (Accepted /\ exec.cur.state \in DOMAIN TheSpec.states) =>
                exec.out.tag \notin {"GuardNotFoundError", "ActionNotFoundError"}
        /\ (~Accepted /\ HasTransition) =>
                /\ GuardName \notin ({Absent} \cup DOMAIN TheSpec.guards) =>
                        /\ exec.out.tag = "GuardNotFoundError"
                        /\ exec.out.error.guard = GuardName
                /\ (GuardLetsThrough /\ DanglingReached # <<>>) =>
                        /\ exec.out.tag = "ActionNotFoundError"
                        /\ exec.out.error.action = Head(DanglingReached)
                /\ \A i \in DOMAIN exec.out.trace :
                        exec.out.trace[i].name \in
                            (DOMAIN TheSpec.guards) \cup (DOMAIN TheSpec.actions)

\* an accepted spec whose COMPLETE names a guard and three actions, run to
\* the end
C22_Witness ==
    /\ Ran
    /\ Accepted
    /\ HasTransition
    /\ GuardName # Absent
    /\ exec.out.tag = "ok"
    /\ Len(exec.out.trace) = 4

(***************************************************************************)
(* SpecRegistry: register, get and all on a registry that starts empty     *)
(***************************************************************************)
\* SpecRegistry.get: specs.has(id) ? succeed(specs.get(id)) : fail(...); the
\* available ids are carried as a set
get(reg, id) ==
    IF id \in DOMAIN reg
    THEN [tag |-> "ok", spec |-> reg[id]]
    ELSE Fail("SpecNotFoundError",
              [actorType |-> id, availableSpecs |-> DOMAIN reg], <<>>)

\* SpecRegistry.all: Array.from(specs.values()), as the set of its elements
all(reg) == {reg[id] : id \in DOMAIN reg}

\* a spec under another id
WithId(spec, id) == [spec EXCEPT !.id = id]

RegIds == {"test", "feature-rollout", "content-production"}
RegSpecSet ==
    {WithId(spec, id) :
        spec \in {MinimalSpec,
                  TestSpec("onExit", Absent, "increment", "onEntry", "increment")},
        id \in RegIds}

InitRegistry ==
    /\ registry = [k \in {} |-> MinimalSpec]
    /\ backend = "memory"
    /\ files = [k \in EntityKeys |-> NoFile]
    /\ nextId = 0
    /\ exec = NoExec
    /\ call = NoCall
    /\ clock = 0
    /\ inflight = NoInflight
    /\ actor = NoActor
    /\ val = NoVal

Get(id) ==
    /\ call' = [op |-> "get", id |-> id, out |-> get(registry, id)]
    /\ UNCHANGED <<registry, backend, files, nextId, exec, clock, val, inflight, actor>>

All ==
    /\ call' = [op |-> "all", out |-> all(registry)]
    /\ UNCHANGED <<registry, backend, files, nextId, exec, clock, val, inflight, actor>>

NextRegistry ==
    \/ \E spec \in RegSpecSet : Register(spec)
    \/ \E id \in RegIds : Get(id)
    \/ All

SpecRegistry == InitRegistry /\ [][NextRegistry]_vars

(***************************************************************************)
(* C23: after any sequence of register calls, get(id) returns the spec     *)
(* most recently registered under that id (registering again overwrites,   *)
(* and register never fails), get of an id that was never registered fails *)
(* with SpecNotFoundError carrying that id, and all() holds exactly one    *)
(* spec per registered id. Stated step by step: nothing is registered at   *)
(* the start; a register makes get(id) return its argument and changes the *)
(* answer for no other id; get and all change no answer.                   *)
(* (checked under SpecRegistry)                                            *)
(***************************************************************************)
SameAnswer(id) ==
    /\ get(registry', id).tag = get(registry, id).tag
    /\ get(registry, id).tag = "ok" => get(registry', id).spec = get(registry, id).spec

C23_RegistryLastWriteWins ==
    /\ \A id \in RegIds :
            /\ get(registry, id).tag = "SpecNotFoundError"
            /\ get(registry, id).error.actorType = id
    /\ [][/\ call'.op = "register" =>
                /\ get(registry', call'.id) = [tag |-> "ok", spec |-> call'.spec]
                /\ \A id \in RegIds \ {call'.id} : SameAnswer(id)
          /\ call'.op \in {"get", "all"} => \A id \in RegIds : SameAnswer(id)
          /\ call'.op = "get" => call'.out = get(registry', call'.id)
          /\ call'.op = "all" => call'.out = all(registry')
          /\ \A id \in RegIds :
                /\ get(registry', id).tag \in {"ok", "SpecNotFoundError"}
                /\ get(registry', id).tag = "SpecNotFoundError" =>
                        get(registry', id).error.actorType = id
                /\ Cardinality({spec \in all(registry') : spec.id = id}) =
                        IF get(registry', id).tag = "ok" THEN 1 ELSE 0]_vars

\* an id registered twice with different specs, a second id registered, a
\* third never registered, then all() read
C23_Witness ==
    /\ call.op = "all"
    /\ Cardinality(call.out) = 2
    /\ get(registry, "test") = [tag |-> "ok", spec |-> MinimalSpec]
    /\ get(registry, "content-production").tag = "SpecNotFoundError"

(***************************************************************************)
(* C24: every spec obtainable from the registry satisfies the              *)
(* specification invariant: its initial state is a key of states, and      *)
(* every transition target, every guard name and every action name         *)
(* (of a transition, entry or exit) resolves within the same spec.         *)
(* (The code does not satisfy this: register stores what it is given and   *)
(* createActorSpec returns its argument, so a spec whose COMPLETE names    *)
(* the guard nonExistentGuard is registered and served.)                   *)
(* (checked under SpecOps)                                                 *)
(***************************************************************************)
SpecInvariant(spec) ==
    /\ spec.initial \in DOMAIN spec.states
    /\ \A s \in DOMAIN spec.states :
        /\ {spec.states[s].entry, spec.states[s].exit} \ {Absent} \subseteq DOMAIN spec.actions
        /\ \A t \in Range(spec.states[s].on) :
            /\ t.target \in DOMAIN spec.states
            /\ t.guard \in {Absent} \cup DOMAIN spec.guards
            /\ t.action \in {Absent} \cup DOMAIN spec.actions

C24_RegisteredSpecsSatisfyInvariant ==
    \A id \in DOMAIN registry : SpecInvariant(get(registry, id).spec)

(***************************************************************************)
(* C25: execute for an entity type that has no registered spec fails with  *)
(* SpecNotFoundError naming that type before any storage access: it makes  *)
(* no load call and no save call, runs no executor, hands out no audit id  *)
(* and leaves every stored file as it was.                                 *)
(* (checked under SpecOps, where the registry starts empty)                *)
(***************************************************************************)
C25_NoSpecNoStorageAccess ==
    [][(IsExecute(call') /\ call'.command.actorType \notin DOMAIN registry) =>
            /\ call'.out.tag = "SpecNotFoundError"
            /\ call'.out.error.actorType = call'.command.actorType
            /\ call'.loads = 0
            /\ call'.saves = <<>>
            /\ ~call'.ran
            /\ exec' = exec
            /\ files' = files
            /\ nextId' = nextId]_vars

\* a command for the type without a spec while an entity of a registered
\* type is stored
C25_Witness ==
    /\ IsExecute(call)
    /\ call.command.actorType = "ghost"
    /\ call.out.tag = "SpecNotFoundError"
    /\ "test" \in DOMAIN registry
    /\ files[<<"test", "a1">>].exists

(***************************************************************************)
(* SpecStore: the storage provider alone, save and load of one entity      *)
(***************************************************************************)
StoreKey == <<"test", "a1">>

\* an ActorState with its timestamps
EntityState(state, context, version, createdAt, updatedAt) ==
    [id |-> StoreKey[2], actorType |-> StoreKey[1], state |-> state,
     context |-> context, version |-> version,
     createdAt |-> DateVal(createdAt), updatedAt |-> DateVal(updatedAt)]

\* contexts of the saved states: a count, a count that is NaN (what
\* `count: ctx.count + 1` leaves when there was no count; Schema.Number
\* accepts it), and a count with the Date an action such as the example's
\* deployedAt: new Date() puts in the context
StoreContexts ==
    {[k \in {"count"} |-> c] : c \in {Num(n) : n \in 0..MaxCount} \cup {NaN}}
    \cup {[k \in {"count", "deployedAt"} |->
                IF k = "count" THEN Num(0) ELSE DateVal(t)] : t \in 0..MaxClock}

StoreStates ==
    {EntityState(state, context, version, createdAt, updatedAt) :
        state \in {"idle", "active"}, context \in StoreContexts,
        version \in 1..2, createdAt \in {0}, updatedAt \in 0..MaxClock}

InitStore ==
    /\ registry = [k \in {} |-> MinimalSpec]
    /\ backend \in Backends
    /\ files = [k \in EntityKeys |-> NoFile]
    /\ nextId = 0
    /\ exec = NoExec
    /\ call = NoCall
    /\ clock = 0
    /\ inflight = NoInflight
    /\ actor = NoActor
    /\ val = NoVal

\* storage.save(actorType, actorId, state, audit)
Save(key, state) ==
    /\ nextId < MaxSaves
    /\ nextId' = nextId + 1
    /\ files' = save(backend, files, key, state,
                     [id |-> nextId + 1, timestamp |-> state.updatedAt.n,
                      actorType |-> key[1], actorId |-> key[2], event |-> "SAVE",
                      from |-> state.state, to |-> state.state, result |-> "success"])
    /\ call' = [op |-> "save", key |-> key, saved |-> state]
    /\ UNCHANGED <<registry, backend, exec, clock, val, inflight, actor>>

\* storage.load(actorType, actorId) after a save; `saved` is the state the
\* last save was given
Load(key) ==
    /\ call.op \in {"save", "load"}
    /\ call.key = key
    /\ call' = [op |-> "load", key |-> key, saved |-> call.saved,
                out |-> load(backend, files, key)]
    /\ UNCHANGED <<registry, backend, files, nextId, exec, clock, val, inflight, actor>>

NextStore ==
    \/ \E state \in StoreStates : Save(StoreKey, state)
    \/ Load(StoreKey)

SpecStore == InitStore /\ [][NextStore]_vars

(***************************************************************************)
(* C26: storage round-trips entity state without loss on both backends: a  *)
(* load after a save returns a state equal to the saved one in id, entity  *)
(* type, state name, context (values that are not strings, such as dates,  *)
(* included), version, createdAt and updatedAt.                            *)
(* (The code does not satisfy this on fs-json: the file is written with    *)
(* JSON.stringify and loadFile turns only createdAt, updatedAt and the     *)
(* audit timestamps back into Dates, so a Date in the context comes back   *)
(* as a string and a NaN as null.)                                         *)
(* (checked under SpecStore)                                               *)
(***************************************************************************)
C26_StorageRoundTrip ==
    call.op = "load" =>
        /\ call.out.ok
        /\ call.out.data.state = call.saved

(***************************************************************************)
(* SpecConc: two callers saving the same entity at the same time. The      *)
(* fs-json save is an Effect with three asynchronous steps (mkdir, the     *)
(* read of the existing file, Bun.write); another fiber may run between    *)
(* them. The in-memory save is one Effect.sync.                            *)
(***************************************************************************)
Savers == {"s1", "s2"}

IdleSaver == [pc |-> "idle", state |-> NoState, audit |-> [id |-> 0], existing |-> <<>>]

\* what a caller saves: the state of version `uuid` and the audit entry of
\* the same number
SavedState(uuid, context) == EntityState("active", context, uuid, 0, 0)
SavedAudit(uuid) ==
    [id |-> uuid, timestamp |-> 0, actorType |-> StoreKey[1], actorId |-> StoreKey[2],
     event |-> "TOUCH", from |-> "active", to |-> "active", result |-> "success"]

ConcContexts == {[k \in {"count"} |-> Num(n)] : n \in 0..MaxCount}

InitConc ==
    /\ registry = [k \in {} |-> MinimalSpec]
    /\ backend \in Backends
    /\ files = [k \in EntityKeys |-> NoFile]
    /\ nextId = 0
    /\ exec = NoExec
    /\ call = NoCall
    /\ clock = 0
    /\ val = NoVal
    /\ inflight = [p \in Savers |-> IdleSaver]
    /\ actor = NoActor

\* a caller enters save(actorType, actorId, state, audit); on fs-json the
\* directory is made first
BeginSave(p, context) ==
    /\ inflight[p].pc \in {"idle", "done"}
    /\ nextId < MaxSaves
    /\ nextId' = nextId + 1
    /\ inflight' = [inflight EXCEPT ![p] =
            [pc |-> "begun", state |-> SavedState(nextId + 1, context),
             audit |-> SavedAudit(nextId + 1), existing |-> <<>>]]
    /\ UNCHANGED <<registry, backend, files, exec, call, clock, val, actor>>

\* in-memory: actors.set and audits.set in one synchronous step
SaveSync(p) ==
    /\ backend = "memory"
    /\ inflight[p].pc = "begun"
    /\ files' = mockSave(files, StoreKey, inflight[p].state, inflight[p].audit)
    /\ inflight' = [inflight EXCEPT ![p].pc = "done"]
    /\ UNCHANGED <<registry, backend, nextId, exec, call, clock, val, actor>>

\* fs-json: existingData = loadFile(filePath), or an empty audit list when
\* the file cannot be loaded
SaveLoadExisting(p) ==
    /\ backend = "fs-json"
    /\ inflight[p].pc = "begun"
    /\ \E existing \in {loadFile(files, StoreKey)} :
          inflight' = [inflight EXCEPT
                          ![p].pc = "loaded",
                          ![p].existing = IF existing.ok THEN existing.data.audit
                                          ELSE <<>>]
    /\ UNCHANGED <<registry, backend, files, nextId, exec, call, clock, val, actor>>

\* fs-json: Bun.write(filePath, JSON.stringify({state, audit: [...existing,
\* audit], savedAt})): the whole file is replaced
SaveWrite(p) ==
    /\ backend = "fs-json"
    /\ inflight[p].pc = "loaded"
    /\ files' = [files EXCEPT ![StoreKey] =
                    [exists |-> TRUE, parsable |-> TRUE,
                     state |-> jsonState(inflight[p].state),
                     audit |-> Append(inflight[p].existing, inflight[p].audit)]]
    /\ inflight' = [inflight EXCEPT ![p].pc = "done"]
    /\ UNCHANGED <<registry, backend, nextId, exec, call, clock, val, actor>>

\* a reader: load and getHistory of the entity while the saves are under way
ReadEntity ==
    /\ call' = [op |-> "read",
                state |-> load(backend, files, StoreKey),
                history |-> getHistory(backend, files, StoreKey, Undefined, Undefined)]
    /\ UNCHANGED <<registry, backend, files, nextId, exec, clock, val, inflight, actor>>

NextConc ==
    \/ \E p \in Savers, context \in ConcContexts : BeginSave(p, context)
    \/ \E p \in Savers : SaveSync(p)
    \/ \E p \in Savers : SaveLoadExisting(p)
    \/ \E p \in Savers : SaveWrite(p)
    \/ ReadEntity

SpecConc == InitConc /\ [][NextConc]_vars

(***************************************************************************)
(* C27: a save stores the state and its audit entry atomically and is safe *)
(* under concurrent access: under every interleaving of two saves of the   *)
(* same entity, a reader never gets a state whose audit entry is not in    *)
(* the history it gets, and once every save has completed the stored       *)
(* history holds the audit entry of each of them.                          *)
(* (The code does not satisfy this on fs-json: save reads the file, then   *)
(* writes it; two saves that both read before either writes leave the      *)
(* history with one entry.)                                                *)
(* (checked under SpecConc)                                                *)
(***************************************************************************)
AuditIds(audit) == {audit[i].id : i \in DOMAIN audit}
AllSavesDone == \A p \in Savers : inflight[p].pc \in {"idle", "done"}

C27_SaveAtomicUnderConcurrency ==
    /\ (call.op = "read" /\ call.state.ok) =>
            /\ call.history.tag = "ok"
            /\ call.state.data.state.version \in AuditIds(call.history.entries)
    /\ AllSavesDone => AuditIds(files[StoreKey].audit) = 1..nextId

(***************************************************************************)
(* SpecActor: an actor made by Actor.make and sent messages one after      *)
(* another                                                                 *)
(***************************************************************************)
MaxSends == 3       \* messages sent to one actor

\* config.receive, three of them: the counter of the tests; a counter that
\* refuses to go below zero and fails on an unknown message; the start/stop
\* machine of the tests, failing on "crash"
receive(impl, state, message) ==
    CASE impl = "counter" ->
            [ok |-> TRUE, error |-> "",
             state |-> IF message = "increment" THEN Num(state.n + 1)
                       ELSE Num(state.n - 1)]
      [] impl = "floor" ->
            IF message = "increment"
            THEN [ok |-> TRUE, error |-> "", state |-> Num(state.n + 1)]
            ELSE IF message = "decrement" /\ state.n > 0
            THEN [ok |-> TRUE, error |-> "", state |-> Num(state.n - 1)]
            ELSE IF message = "decrement"
            THEN [ok |-> FALSE, error |-> "below zero", state |-> state]
            ELSE [ok |-> FALSE, error |-> "unknown message", state |-> state]
      [] OTHER ->
            IF message = "start" /\ state = Str("idle")
            THEN [ok |-> TRUE, error |-> "", state |-> Str("running")]
            ELSE IF message = "stop" /\ state = Str("running")
            THEN [ok |-> TRUE, error |-> "", state |-> Str("stopped")]
            ELSE IF message = "crash"
            THEN [ok |-> FALSE, error |-> "crashed", state |-> state]
            ELSE [ok |-> TRUE, error |-> "", state |-> state]

\* send that hands receive the initial state instead of the current one
sendFromInitialState(config, currentState, message) ==
    LET received == receive(config.receive, config.initialState, message) IN
    IF received.ok
    THEN [currentState |-> received.state, out |-> [tag |-> "ok"]]
    ELSE [currentState |-> currentState,
          out |-> [tag |-> "fail", error |-> received.error]]

\* actorRef.send: newState = yield* config.receive(currentState, message);
\* currentState = newState. A failing receive ends the generator before the
\* assignment
send(config, currentState, message) ==
    LET received == receive(config.receive, currentState, message) IN
    IF received.ok
    THEN [currentState |-> received.state, out |-> [tag |-> "ok"]]
    ELSE [currentState |-> currentState,
          out |-> [tag |-> "fail", error |-> received.error]]

ActorConfigs ==
    {[receive |-> "counter", initialState |-> Num(0)],
     [receive |-> "floor", initialState |-> Num(0)],
     [receive |-> "floor", initialState |-> Num(1)],
     [receive |-> "lifecycle", initialState |-> Str("idle")]}

Messages(config) ==
    IF config.receive = "lifecycle" THEN {"start", "stop", "crash"}
    ELSE {"increment", "decrement", "reset"}

\* Actor.make(config): let currentState = config.initialState
InitActor ==
    /\ registry = [k \in {} |-> MinimalSpec]
    /\ backend = "memory"
    /\ files = [k \in EntityKeys |-> NoFile]
    /\ nextId = 0
    /\ exec = NoExec
    /\ call = NoCall
    /\ clock = 0
    /\ val = NoVal
    /\ inflight = NoInflight
    /\ \E config \in ActorConfigs :
          actor = [made |-> TRUE, config |-> config,
                   currentState |-> config.initialState,
                   sent |-> <<>>, out |-> [tag |-> "none"]]

Send(message) ==
    /\ Len(actor.sent) < MaxSends
    /\ \E r \in {send(actor.config, actor.currentState, message)} :
          actor' = [actor EXCEPT !.currentState = r.currentState,
                                 !.out = r.out,
                                 !.sent = Append(@, message)]
    /\ UNCHANGED <<registry, backend, files, nextId, exec, call, clock, val, inflight>>

NextActor == \E message \in Messages(actor.config) : Send(message)

SpecActor == InitActor /\ [][NextActor]_vars

(***************************************************************************)
(* C28: after any sequence of sends issued one after another, the actor's  *)
(* state is the left fold of receive over the initial state and the        *)
(* messages whose receive succeeded, each receive being given the state    *)
(* the previous message left; a send whose receive fails leaves the state  *)
(* as it was and fails with the error of receive.                          *)
(* (checked under SpecActor)                                               *)
(***************************************************************************)
\* the fold over the first n messages sent; a failed receive is skipped
RECURSIVE FoldReceive(_)
FoldReceive(n) ==
    IF n = 0 THEN actor.config.initialState
    ELSE LET before == FoldReceive(n - 1)
             r == receive(actor.config.receive, before, actor.sent[n])
         IN IF r.ok THEN r.state ELSE before

C28_StateIsFoldOfReceive ==
    /\ actor.currentState = FoldReceive(Len(actor.sent))
    /\ actor.sent # <<>> =>
        LET n == Len(actor.sent)
            r == receive(actor.config.receive, FoldReceive(n - 1), actor.sent[n])
        IN /\ r.ok => actor.out = [tag |-> "ok"]
           /\ ~r.ok => /\ actor.out = [tag |-> "fail", error |-> r.error]
                       /\ actor.currentState = FoldReceive(n - 1)

\* a receive succeeded, the next one failed, a third one succeeded from the
\* state the first one left
C28_Witness ==
    /\ actor.config.receive = "floor"
    /\ actor.sent = <<"increment", "reset", "increment">>
    /\ actor.currentState = Num(2)
    /\ actor.out = [tag |-> "ok"]

(***************************************************************************)
(* C29: executeCommand checks in a fixed order and the first failure wins: *)
(* InvalidState (unknown current state), TransitionNotAllowed,             *)
(* GuardNotFound, GuardFailed, ActionNotFound for the exit action, for the *)
(* transition's action, for the entry action, Validation. A failing guard  *)
(* together with a missing action gives GuardFailed, and after a failure   *)
(* no function of a later step is called: the calls made are those of the  *)
(* steps before the failing one.                                           *)
(* (checked under SpecExec)                                                *)
(***************************************************************************)
\* the first check that fails, 1..8 in the order above, 9 when none does
FirstFailure ==
    IF exec.cur.state \notin DOMAIN TheSpec.states THEN 1
    ELSE IF ~HasTransition THEN 2
    ELSE IF GuardName \notin ({Absent} \cup DOMAIN TheSpec.guards) THEN 3
    ELSE IF GuardIsFalse THEN 4
    ELSE IF ~Resolves(ExitName) THEN 5
    ELSE IF ~Resolves(ActionName) THEN 6
    ELSE IF ~Resolves(EntryName) THEN 7
    ELSE IF ~DecodeOk(AfterAllActions) THEN 8
    ELSE 9

FailureTag(step) ==
    CASE step = 1 -> "InvalidStateError"
      [] step = 2 -> "TransitionNotAllowedError"
      [] step = 3 -> "GuardNotFoundError"
      [] step = 4 -> "GuardFailedError"
      [] step \in {5, 6, 7} -> "ActionNotFoundError"
      [] step = 8 -> "ValidationError"
      [] OTHER -> "ok"

\* the names of the functions called before the check `step` fails
CallsBefore(step) ==
    IF step <= 3 THEN <<>>
    ELSE Present(<<GuardName>>)
         \o (IF step >= 6 THEN Present(<<ExitName>>) ELSE <<>>)
         \o (IF step >= 7 THEN Present(<<ActionName>>) ELSE <<>>)
         \o (IF step >= 8 THEN Present(<<EntryName>>) ELSE <<>>)

C29_FirstFailureWins ==
    Ran =>
        /\ exec.out.tag = FailureTag(FirstFailure)
        /\ FirstFailure = 3 => exec.out.error.guard = GuardName
        /\ FirstFailure = 4 => exec.out.error.guard = GuardName
        /\ FirstFailure = 5 => exec.out.error.action = ExitName
        /\ FirstFailure = 6 => exec.out.error.action = ActionName
        /\ FirstFailure = 7 => exec.out.error.action = EntryName
        /\ [i \in 1..Len(exec.out.trace) |-> exec.out.trace[i].name]
                = CallsBefore(FirstFailure)

\* a guard that is false and actions that do not resolve: GuardFailedError,
\* and only the guard was called
C29_Witness ==
    /\ Ran
    /\ HasTransition
    /\ GuardIsFalse
    /\ ~Resolves(ExitName)
    /\ ~Resolves(ActionName)
    /\ exec.out.tag = "GuardFailedError"
    /\ Len(exec.out.trace) = 1

(***************************************************************************)
(* C30: executeCommand writes nothing outside the value it returns: on     *)
(* success or failure the spec and the currentState it was given (state    *)
(* name, context, version) and the stored files are as before the call,    *)
(* and on success the result has from = the current state's name, to = the *)
(* target of the selected transition, event = the command's event and      *)
(* oldContext = the context the entity had before the call, not the merged *)
(* or transformed one.                                                     *)
(* (checked under SpecExec)                                                *)
(***************************************************************************)
C30_WritesOnlyItsResult ==
    [][exec'.out # exec.out =>
        /\ registry' = registry
        /\ exec'.cur = exec.cur
        /\ exec'.cmd = exec.cmd
        /\ files' = files
        /\ exec'.out.tag = "ok" =>
            /\ exec'.out.result.from = exec.cur.state
            /\ exec'.out.result.to = Selected.target
            /\ exec'.out.result.event = exec.cmd.event
            /\ exec'.out.result.oldContext = exec.cur.context]_vars

\* a successful run in which the data overrode a key of the context and the
\* actions changed it again
C30_Witness ==
    /\ exec.out.tag = "ok"
    /\ exec.cmd.data # EmptyCtx
    /\ exec.out.result.oldContext # ShallowMerge
    /\ exec.out.result.newContext # ShallowMerge
    /\ exec.out.result.from # exec.out.result.to
    /\ Len(ActionCalls(exec.out.trace)) = 3

(***************************************************************************)
(* SpecFlow: the service on one entity of a spec that has a transition     *)
(* without any action, a self-transition, a terminal state reached in one  *)
(* step and a state nothing leads to                                       *)
(***************************************************************************)
\* createTestSpec() rearranged: `idle` can also go straight to `done`,
\* `active` has the given exit and entry actions, COMPLETE names no action,
\* TOUCH stays in `active`, `done` has no transitions, `orphan` is not the
\* target of any transition; `broken`, when not Absent, is the target an
\* object-form transition BROKEN of `idle` names
FlowSpec(exit, entry, broken) ==
    [id |-> "test",
     schema |-> "TestSchema",
     initial |-> "idle",
     order |-> <<"idle", "active", "done", "orphan">>,
     states |->
        [s \in {"idle", "active", "done", "orphan"} |->
            CASE s = "idle" ->
                    StateDef(<<StrT("START", "active"), StrT("ARCHIVE", "done")>>
                             \o (IF broken = "none" THEN <<>>
                                 ELSE <<ObjT("BROKEN", broken, Absent, Absent)>>),
                             Absent, Absent)
              [] s = "active" ->
                    StateDef(<<ObjT("COMPLETE", "done", Absent, Absent),
                               ObjT("TOUCH", "active", Absent, "increment")>>,
                             entry, exit)
              [] s = "done" -> StateDef(<<>>, Absent, Absent)
              [] OTHER -> StateDef(<<StrT("RESCUE", "active")>>, Absent, Absent)],
     guards |-> [n \in {"canStart"} |-> "canStart"],
     actions |-> [n \in {"increment", "onExit", "onEntry"} |-> n]]

FlowSpecSet ==
    {FlowSpec(Absent, Absent, "none"),
     FlowSpec("onExit", "onEntry", "none"),
     FlowSpec("onExit", "onEntry", Absent)}

FlowKey == <<"test", "a1">>
FlowCommands ==
    {Command(FlowKey[1], FlowKey[2], ev, d) :
        ev \in {"START", "ARCHIVE", "COMPLETE", "TOUCH", "RESCUE", "BROKEN"},
        d \in ServiceData}

InitFlow ==
    /\ registry \in [{"test"} -> FlowSpecSet]
    /\ backend \in Backends
    /\ files = [k \in EntityKeys |-> NoFile]
    /\ nextId = 0
    /\ exec = NoExec
    /\ call = NoCall
    /\ clock = 0
    /\ inflight = NoInflight
    /\ actor = NoActor
    /\ val = NoVal

NextFlow ==
    \/ \E command \in FlowCommands : Execute(command)
    \/ DamageFile(FlowKey)

SpecFlow == InitFlow /\ [][NextFlow]_vars

(***************************************************************************)
(* C31 as stated: a successful command whose source state has no exit      *)
(* action, whose transition has no action and whose target state has no    *)
(* entry action leaves the persisted context equal to the context          *)
(* persisted before the command, whatever data the command carries.        *)
(* (The code and its test `should merge command.data into context` do not  *)
(* agree: the data is merged into the context that is persisted.)          *)
(* (checked under SpecFlow)                                                *)
(***************************************************************************)
\* a successful execute whose executor run named no action at all
NoActionStep ==
    /\ IsExecute(call')
    /\ call'.out.tag = "ok"
    /\ ExitName' = Absent
    /\ ActionName' = Absent
    /\ EntryName' = Absent

PersistedTerminal(key) ==
    /\ files[key].exists
    /\ files[key].state.state \in DOMAIN TheSpec.states
    /\ TheSpec.states[files[key].state.state].on = <<>>

C32_TerminalStateAbsorbs ==
    [][PersistedTerminal(FlowKey) =>
        /\ files'[FlowKey].exists
        /\ files'[FlowKey].state = files[FlowKey].state
        /\ files'[FlowKey].audit = files[FlowKey].audit
        /\ (IsExecute(call') /\ KeyOf(call'.command) = FlowKey) =>
                /\ call'.out.tag = "TransitionNotAllowedError"
                /\ call'.out.error.available = <<>>
                /\ call'.saves = <<>>]_vars


(***************************************************************************)
(* SpecReads: the read operations of the service next to execute. One spec *)
(* is registered under "test"; commands build up stored states and audit   *)
(* histories, a stored file may be damaged, and query, list, getHistory,   *)
(* canTransition and getSpec are called on stored, missing and unknown     *)
(* entities.                                                               *)
(***************************************************************************)
\* QueryFilter, by its `status` field (the date and pagination fields are
\* left out: stored states are compared by name here)
QueryFilters == {[status |-> Absent], [status |-> "active"], [status |-> "done"]}

\* in-memory query: every state whose key starts with the type; the filter is
\* not looked at. The result is taken as the set of its elements.
mockQuery(fs, actorType, filter) ==
    {fs[k].state : k \in {e \in DOMAIN fs : e[1] = actorType /\ fs[e].exists}}

\* fs-json query: every file of the type's directory that loads (one that
\* does not is skipped), then the status filter
fsJsonQuery(fs, actorType, filter) ==
    LET loadedStates ==
            {loadFile(fs, k).data.state :
                k \in {e \in DOMAIN fs : e[1] = actorType /\ loadFile(fs, e).ok}}
    IN IF filter.status # Absent
       THEN {s \in loadedStates : s.state = filter.status}
       ELSE loadedStates

\* ActorService.list delegates to storage.query
list(be, fs, actorType, filter) ==
    [tag |-> "ok",
     states |-> IF be = "memory" THEN mockQuery(fs, actorType, filter)
                ELSE fsJsonQuery(fs, actorType, filter)]

\* ActorService.getSpec delegates to specRegistry.get
getSpec(reg, actorType) == get(reg, actorType)

InitReads ==
    /\ registry = [k \in {"test"} |->
                        TestSpec("onExit", "canStart", "increment", "onEntry", "increment")]
    /\ backend \in Backends
    /\ files = [k \in EntityKeys |-> NoFile]
    /\ nextId = 0
    /\ exec = NoExec
    /\ call = NoCall
    /\ clock = 0
    /\ inflight = NoInflight
    /\ actor = NoActor
    /\ val = NoVal

List(actorType, filter) ==
    /\ call' = [op |-> "list", actorType |-> actorType, filter |-> filter, calls |-> <<>>,
                out |-> list(backend, files, actorType, filter)]
    /\ UNCHANGED <<registry, backend, files, nextId, exec, clock, val, inflight, actor>>

GetSpec(actorType) ==
    /\ call' = [op |-> "getSpec", actorType |-> actorType, calls |-> <<>>,
                out |-> getSpec(registry, actorType)]
    /\ UNCHANGED <<registry, backend, files, nextId, exec, clock, val, inflight, actor>>

NextReads ==
    \/ \E command \in OpsCommands : Execute(command)
    \/ \E key \in OpsKeys : DamageFile(key)
    \/ \E key \in OpsKeys : Query(key[1], key[2])
    \/ \E key \in OpsKeys, event \in ServiceEvents : CanTransition(key[1], key[2], event)
    \/ \E key \in OpsKeys, limit \in HistoryLimits, offset \in HistoryOffsets :
            GetHistory(key, limit, offset)
    \/ \E actorType \in ActorTypes, filter \in QueryFilters : List(actorType, filter)
    \/ \E actorType \in ActorTypes : GetSpec(actorType)

SpecReads == InitReads /\ [][NextReads]_vars

ReadOps == {"query", "list", "getHistory", "canTransition", "getSpec"}

\* C33: a read operation (query, list, getHistory, canTransition, getSpec),
\* whether it succeeds or fails, leaves the stored state and the audit history
\* of every entity and the registry as they were, hands out no audit id (it
\* saves nothing), runs no command, and calls no action of the spec: the only
\* function of the spec a read calls is the guard canTransition looks at.
C33_ReadsChangeNothing ==
    [][call'.op \in ReadOps =>
        /\ files' = files
        /\ registry' = registry
        /\ nextId' = nextId
        /\ exec' = exec
        /\ \A i \in 1..Len(call'.calls) : call'.calls[i].kind = "guard"]_vars

\* canTransition has answered from a stored state, calling the guard of a
\* transition that also has an action, and the entity has an audit history
C33_Witness ==
    /\ call.op = "canTransition"
    /\ call.out.tag = "ok"
    /\ call.event = "COMPLETE"
    /\ call.calls = <<[kind |-> "guard", name |-> "canStart"]>>
    /\ files[call.key].exists
    /\ Len(files[call.key].audit) > 0


(***************************************************************************)
(* SpecSave: execute with a save that may go wrong. The in-memory save is  *)
(* one Effect.sync and cannot fail. The fs-json save runs mkdir and        *)
(* Bun.write inside Effect.promise: a rejected promise there is a defect   *)
(* (the fiber dies with the rejection), and the Effect.mapError that       *)
(* follows maps failures only, so it never builds its StorageError.        *)
(***************************************************************************)
\* the outcomes of the I/O of one save the backend can show
SaveIOOf(be) ==
    IF be = "memory" THEN {"ok"} ELSE {"ok", "mkdir rejects", "write rejects"}

\* execute under an outcome of the save's I/O: `yield* storage.save(...)` is
\* the last step before `return result`, so a save that does not succeed ends
\* the handler with the save's own outcome; nothing was written
executeWithSaveIO(reg, be, fs, uuid, startTime, command, io) ==
    LET r == execute(reg, be, fs, uuid, startTime, command) IN
    IF r.saves = <<>> \/ io = "ok"
    THEN r
    ELSE [r EXCEPT !.out = Fail("Defect", [operation |-> "save", reason |-> io], <<>>),
                   !.files = fs]

ExecuteWithSaveIO(command, io) ==
    \E r \in {executeWithSaveIO(registry, backend, files, nextId + 1, clock, command, io)} :
    /\ nextId + Len(r.saves) <= MaxSaves
    /\ files' = r.files
    /\ nextId' = nextId + Len(r.saves)
    /\ exec' = IF r.ran THEN r.exec ELSE exec
    /\ call' = [op |-> "execute", command |-> command, out |-> r.out, io |-> io,
                loads |-> r.loads, ran |-> r.ran, saves |-> r.saves]
    /\ UNCHANGED <<registry, backend, clock, val, inflight, actor>>

NextSave ==
    \/ \E command \in OpsCommands, io \in SaveIOOf(backend) :
            ExecuteWithSaveIO(command, io)
    \/ \E key \in OpsKeys : DamageFile(key)

SpecSave == InitHist /\ [][NextSave]_vars

\* the save of an otherwise successful execute went wrong
SaveWentWrong(c) == IsExecute(c) /\ c.io # "ok" /\ c.saves # <<>>

Skipped(c, key) ==
    LET n == Len(files[key].audit)
        offset == IF c.offset = Undefined THEN 0 ELSE c.offset
    IN IF offset < n THEN offset ELSE n

Callers == {"e1", "e2"}

IdleCaller == [pc |-> "idle", command |-> Command("", "", "", EmptyCtx),
               currentState |-> NoState, startTime |-> 0]

RaceCommands ==
    {Command("test", id, ev, EmptyCtx) :
        id \in ActorIds, ev \in {"START", "TOUCH", "COMPLETE"}}
    \cup {Command("test", "a1", "START", [k \in {"count"} |-> Num(0)]),
          Command("ghost", "a1", "START", EmptyCtx)}

\* the second half of execute with the state loaded again just before the
\* new state is built
executeAfterLoadReloading(reg, be, fs, uuid, startTime, command, currentState) ==
    LET spec == reg[command.actorType]
        fresh == loadOrInitialize(spec, be, fs, command)
        cmd == [event |-> command.event, data |-> command.data]
        result == executeCommand(spec, currentState, cmd)
        stored == persist(be, fs, uuid, startTime, command, fresh, result)
    IN [out |-> result, files |-> stored.files, saves |-> stored.saves,
        exec |-> [cur |-> currentState, cmd |-> cmd, out |-> result]]

\* 3. and 4. of execute, from the state the load step left in `currentState`
executeAfterLoad(reg, be, fs, uuid, startTime, command, currentState) ==
    LET spec == reg[command.actorType]
        cmd == [event |-> command.event, data |-> command.data]
        result == executeCommand(spec, currentState, cmd)
        stored == persist(be, fs, uuid, startTime, command, currentState, result)
    IN [out |-> result, files |-> stored.files, saves |-> stored.saves,
        exec |-> [cur |-> currentState, cmd |-> cmd, out |-> result]]

InitRace ==
    /\ registry = [k \in {"test"} |->
                        TestSpec("onExit", Absent, "increment", "onEntry", "increment")]
    /\ backend \in Backends
    /\ files = [k \in EntityKeys |-> NoFile]
    /\ nextId = 0
    /\ exec = NoExec
    /\ call = NoCall
    /\ clock = 0
    /\ val = NoVal
    /\ inflight = [p \in Callers |-> IdleCaller]
    /\ actor = NoActor

\* 1. and 2. of execute: a type without a spec ends the call at once,
\* otherwise the caller holds the loaded (or the initial) state
ExecuteLoad(p, command) ==
    /\ inflight[p].pc = "idle"
    /\ IF command.actorType \notin DOMAIN registry
       THEN /\ call' = [op |-> "execute", caller |-> p, command |-> command,
                        step |-> "load",
                        out |-> Fail("SpecNotFoundError",
                                     [actorType |-> command.actorType], <<>>)]
            /\ UNCHANGED inflight
       ELSE /\ inflight' = [inflight EXCEPT ![p] =
                    [pc |-> "loaded", command |-> command,
                     currentState |-> loadOrInitialize(registry[command.actorType],
                                                       backend, files, command),
                     startTime |-> clock]]
            /\ call' = [op |-> "execute", caller |-> p, command |-> command,
                        step |-> "load", out |-> Pending]
    /\ UNCHANGED <<registry, backend, files, nextId, exec, clock, val, actor>>

ExecuteSave(p) ==
    /\ inflight[p].pc = "loaded"
    /\ \E r \in {executeAfterLoad(registry, backend, files, nextId + 1,
                                  inflight[p].startTime, inflight[p].command,
                                  inflight[p].currentState)} :
           /\ nextId + Len(r.saves) <= MaxSaves
           /\ files' = r.files
           /\ nextId' = nextId + Len(r.saves)
           /\ exec' = r.exec
           /\ inflight' = [inflight EXCEPT ![p] = IdleCaller]
           /\ call' = [op |-> "execute", caller |-> p, command |-> inflight[p].command,
                       step |-> "save", out |-> r.out, saves |-> r.saves,
                       loaded |-> inflight[p].currentState]
           /\ UNCHANGED <<registry, backend, clock, val, actor>>

NextRace ==
    \/ \E p \in Callers, command \in RaceCommands : ExecuteLoad(p, command)
    \/ \E p \in Callers : ExecuteSave(p)

SpecRace == InitRace /\ [][NextRace]_vars

\* an execute has made its save call
Saved(c) == c.op = "execute" /\ c.step = "save" /\ c.saves # <<>>

\* the rule of a compare-and-swap backend, applied to the save of this step:
\* it is let through only when its version is the stored version plus one
\* (1 when nothing is stored)
CasAccepts ==
    call'.saves[1].state.version = StoredVersion(files, KeyOf(call'.command)) + 1

\* stored version = number of audit entries, for every entity
VersionCountsAudit(fs) ==
    \A k \in DOMAIN fs : StoredVersion(fs, k) = Len(fs[k].audit)

\* C36: every save of an execute carries the version it loaded plus one, so
\* of two executes on one entity that both load before either saves, both
\* saves carry the same version, and the rule of a compare-and-swap backend
\* (version = stored version + 1) turns the later one down; as long as only
\* saves that the rule lets through have been made, each save was computed
\* from the state that is stored, adds one audit entry, and the stored version
\* of every entity equals the number of its audit entries.
C36_VersionDetectsOverlap ==
    [][Saved(call') =>
        LET key == KeyOf(call'.command) IN
        /\ call'.saves[1].state.version = call'.loaded.version + 1
        /\ call'.loaded.version # StoredVersion(files, key) => ~CasAccepts
        /\ (CasAccepts /\ VersionCountsAudit(files)) =>
                /\ call'.loaded = loadOrInitialize(TheSpec, backend, files, call'.command)
                /\ Len(files'[key].audit) = Len(files[key].audit) + 1
                /\ VersionCountsAudit(files')]_vars

\* two executes on one entity both loaded before either saved, and the later
\* save has been made with the version the earlier one stored
C36_Witness ==
    /\ Saved(call)
    /\ call.loaded.version = 0
    /\ call.saves[1].state.version = 1
    /\ files[KeyOf(call.command)].state.version = 1
    /\ Len(files[KeyOf(call.command)].audit) = 2


\* the names validateSpec lists in its warning about unreachable states
Unreachable == Range(unreachableStates(TheSpec))

\* C37: with a registered spec that validateSpec accepts, the persisted state
\* name of every entity is a key of the spec's states and is not one of the
\* states validateSpec reports as unreachable from the initial state, and a
\* result executeCommand returns has a `to` that is a key of states.
C37_PersistedStateIsReachable ==
    validateSpec(TheSpec).tag = "ok" =>
        /\ \A k \in DOMAIN files :
                files[k].exists =>
                    /\ files[k].state.state \in DOMAIN TheSpec.states
                    /\ files[k].state.state \notin Unreachable
        /\ exec.out.tag = "ok" => exec.out.result.to \in DOMAIN TheSpec.states

\* a command has brought an entity to a state other than the initial one
\* under an accepted spec that has an unreachable state
C37_Witness ==
    /\ validateSpec(TheSpec).tag = "ok"
    /\ Unreachable # {}
    /\ IsExecute(call)
    /\ call.out.tag = "ok"
    /\ files[FlowKey].exists
    /\ files[FlowKey].state.state = "done"


\* the stored audit entries of an entity from the oldest to the newest: the
\* in-memory save puts a new entry in front of the list, the fs-json save
\* appends it
OldestFirst(be, audit) ==
    IF be = "memory" THEN [i \in 1..Len(audit) |-> audit[Len(audit) + 1 - i]]
    ELSE audit

\* the audit history of every stored entity is a chain from the initial state
\* to the persisted state, with as many entries as the persisted version
AuditChain(be, fs) ==
    \A k \in DOMAIN fs :
        fs[k].exists =>
            LET h == OldestFirst(be, fs[k].audit) IN
            /\ Len(h) = fs[k].state.version
            /\ Len(h) >= 1
            /\ h[1].from = TheSpec.initial
            /\ \A i \in 2..Len(h) : h[i].from = h[i - 1].to
            /\ h[Len(h)].to = fs[k].state.state

\* the load of the command's entity did not fail on something that is stored
LoadSucceeds(be, fs, key) == fs[key].exists => load(be, fs, key).ok

\* C38: when commands on an entity do not overlap and the storage calls
\* succeed, the audit history is a chain (the oldest entry starts from the
\* initial state, each later entry starts where the one before it ended, the
\* newest ends at the persisted state name) and has as many entries as the
\* persisted version: nothing is stored at first, and every execute whose
\* load succeeds keeps it so.
C38_AuditHistoryIsChain ==
    /\ AuditChain(backend, files)
    /\ [][(/\ IsExecute(call')
           /\ LoadSucceeds(backend, files, KeyOf(call'.command))
           /\ AuditChain(backend, files))
          => AuditChain(backend, files')]_vars

\* a second command has been stored: two entries, the later one starting
\* from the state the earlier one ended in, another state than the initial one
C38_Witness ==
    /\ IsExecute(call)
    /\ call.out.tag = "ok"
    /\ AuditChain(backend, files)
    /\ Len(files[FlowKey].audit) = 2
    /\ files[FlowKey].state.state = "done"
    /\ OldestFirst(backend, files[FlowKey].audit)[2].from = "active"


(***************************************************************************)
(* SpecKeys: where an entity is stored. actorType and actorId are free     *)
(* strings (a sequence of characters here, "/" , ":" , "." and ".." among  *)
(* them). The in-memory backend keeps an entity under the string           *)
(* `${actorType}:${actorId}`, the fs-json backend in the file              *)
(* path.join(basePath, actorType, `${actorId}.jsonc`); path.join joins     *)
(* its arguments with "/" and normalizes the result.                       *)
(***************************************************************************)
\* the segments of a path between its "/" characters
RECURSIVE Split(_, _, _)
Split(s, i, segment) ==
    IF i > Len(s) THEN <<segment>>
    ELSE IF s[i] = "/" THEN <<segment>> \o Split(s, i + 1, <<>>)
    ELSE Split(s, i + 1, Append(segment, s[i]))

\* path.normalize on the segments: empty and "." segments go, ".." takes the
\* segment before it away
RECURSIVE Resolve(_, _)
Resolve(segments, done) ==
    IF segments = <<>> THEN done
    ELSE LET h == Head(segments) IN
         IF h = <<>> \/ h = <<".">> THEN Resolve(Tail(segments), done)
         ELSE IF h = <<"..">>
         THEN Resolve(Tail(segments),
                      IF done = <<>> THEN done ELSE SubSeq(done, 1, Len(done) - 1))
         ELSE Resolve(Tail(segments), Append(done, h))

\* the segments written out as one path again
RECURSIVE Joined(_)
Joined(segments) ==
    IF segments = <<>> THEN <<>>
    ELSE IF Len(segments) = 1 THEN segments[1]
    ELSE segments[1] \o <<"/">> \o Joined(Tail(segments))

\* fs-json: path.join(basePath, actorType, `${actorId}.jsonc`)
getFilePath(basePath, actorType, actorId) ==
    Joined(Resolve(Split(basePath \o <<"/">> \o actorType \o <<"/">>
                            \o actorId \o <<".jsonc">>, 1, <<>>),
                   <<>>))

\* in-memory: `${actorType}:${actorId}`
getKey(actorType, actorId) == actorType \o <<":">> \o actorId

\* the place a backend keeps the entity (actorType, actorId) in
storageKey(be, actorType, actorId) ==
    IF be = "memory" THEN getKey(actorType, actorId)
    ELSE getFilePath(<<"data">>, actorType, actorId)

KeyPairs ==
    {<<"t">>, <<"t", ":", "a">>} \X {<<"a">>, <<"b">>, <<"a", ":", "b">>, <<".", "/", "a">>}
KeyCommands ==
    {Command(k[1], k[2], ev, [c \in {"count"} |-> Num(0)]) :
        k \in KeyPairs, ev \in {"START", "TOUCH"}}

\* execute with the place of the entity spelled out: the load and the save of
\* a command go to storageKey(actorType, actorId)
executeAtKey(reg, be, fs, uuid, startTime, command) ==
    LET spec == reg[command.actorType]
        key == storageKey(be, command.actorType, command.actorId)
        loaded == load(be, fs, key)
        currentState == IF loaded.ok THEN loaded.data.state
                        ELSE initialState(spec, command)
        cmd == [event |-> command.event, data |-> command.data]
        result == executeCommand(spec, currentState, cmd)
        newState == ActorState(currentState.actorType, currentState.id,
                               result.result.to, result.result.newContext,
                               currentState.version + 1)
        auditEntry == [id |-> uuid,
                       timestamp |-> startTime,
                       actorType |-> command.actorType,
                       actorId |-> command.actorId,
                       event |-> command.event,
                       from |-> currentState.state,
                       to |-> result.result.to,
                       result |-> "success"]
    IN IF result.tag # "ok"
       THEN [out |-> result, files |-> fs, key |-> key, saves |-> <<>>,
             exec |-> [cur |-> currentState, cmd |-> cmd, out |-> result]]
       ELSE [out |-> result, files |-> save(be, fs, key, newState, auditEntry),
             key |-> key,
             saves |-> <<[key |-> key, state |-> newState, audit |-> auditEntry]>>,
             exec |-> [cur |-> currentState, cmd |-> cmd, out |-> result]]

\* nothing stored, nothing executed yet, with names that are character sequences
NoKeyFile == [NoFile EXCEPT !.state = ActorState(<<>>, <<>>, "", EmptyCtx, 0)]

InitKeys ==
    /\ registry = [t \in {p[1] : p \in KeyPairs} |->
                        WithId(TestSpec("onExit", Absent, "increment", "onEntry",
                                        "increment"), t)]
    /\ backend \in Backends
    /\ files = [k \in {storageKey(backend, p[1], p[2]) : p \in KeyPairs} |-> NoKeyFile]
    /\ nextId = 0
    /\ exec = [NoExec EXCEPT !.cur = NoKeyFile.state]
    /\ call = NoCall
    /\ clock = 0
    /\ val = NoVal
    /\ inflight = NoInflight
    /\ actor = NoActor

ExecuteAtKey(command) ==
    \E r \in {executeAtKey(registry, backend, files, nextId + 1, clock, command)} :
    /\ nextId + Len(r.saves) <= MaxSaves
    /\ files' = r.files
    /\ nextId' = nextId + Len(r.saves)
    /\ exec' = r.exec
    /\ call' = [op |-> "execute", command |-> command, out |-> r.out,
                key |-> r.key, loaded |-> r.exec.cur, saves |-> r.saves]
    /\ UNCHANGED <<registry, backend, clock, val, inflight, actor>>

NextKeys == \E command \in KeyCommands : ExecuteAtKey(command)

SpecKeys == InitKeys /\ [][NextKeys]_vars

\* the state and the history stored for the entity (actorType, actorId)
StoredFor(be, fs, pair) == fs[storageKey(be, pair[1], pair[2])]

\* C39: an execute on the entity (type, id) leaves the stored state, version
\* and audit history of every other (type, id) pair as they were, and the
\* state it loads is one that was stored for (type, id).
C39_EntitiesAreIsolated ==
    [][IsExecute(call') =>
        /\ \A pair \in KeyPairs :
                pair # KeyOf(call'.command) =>
                    StoredFor(backend, files', pair) = StoredFor(backend, files, pair)
        /\ /\ call'.loaded.actorType = call'.command.actorType
           /\ call'.loaded.id = call'.command.actorId]_vars


\* a successful execute whose transition leads back to the state it left
SelfTransitionStep ==
    /\ IsExecute(call')
    /\ call'.out.tag = "ok"
    /\ call'.out.result.from = call'.out.result.to

\* C40: a transition whose target is the current state is executed like any
\* other: the state's exit action, the transition's action and the same
\* state's entry action run in this order, each on the context the one before
\* it returned; the result has from = to; and through the service the stored
\* version grows by one, the state name stays, and one audit entry with
\* from = to is written.
C40_SelfTransitionRunsAllSteps ==
    [][SelfTransitionStep =>
        LET s == call'.out.result.from
            key == KeyOf(call'.command)
            Ex == TheSpec.states[s].exit
            Tx == ActionName'
            En == TheSpec.states[s].entry
            calls == ActionCalls(call'.out.trace)
        IN /\ [i \in 1..Len(calls) |-> calls[i].name] = Present(<<Ex, Tx, En>>)
           /\ call'.out.result.newContext = Act(En, Act(Tx, Act(Ex, ShallowMerge')))
           /\ Len(call'.saves) = 1
           /\ call'.saves[1].audit.from = s
           /\ call'.saves[1].audit.to = s
           /\ files'[key].state.state = s
           /\ files'[key].state.version = StoredVersion(files, key) + 1
           /\ Len(files'[key].audit) = Len(files[key].audit) + 1]_vars

\* TOUCH has been executed in `active`, whose exit and entry actions both
\* ran around the transition's action, and the second version is stored
C40_Witness ==
    /\ IsExecute(call)
    /\ call.out.tag = "ok"
    /\ call.command.event = "TOUCH"
    /\ call.out.result.from = "active"
    /\ call.out.result.to = "active"
    /\ [i \in 1..Len(call.out.trace) |-> call.out.trace[i].name]
            = <<"onExit", "increment", "onEntry">>
    /\ files[FlowKey].state.version = 2
    /\ files[FlowKey].state.state = "active"

====
